---- MODULE Spec2Model ----
(***************************************************************************)
(* The message-coalescing auto-responder of whatsappSalesman               *)
(* (src/src/autoResponder.js) with the collaborators it drives: the        *)
(* contact store, the chat transport and the language responder.           *)
(*                                                                         *)
(* Every `await` of the source is a point where other handlers, timers and *)
(* the operator may run, so every awaited call is one pending step of the  *)
(* handler or drain loop that made it; the synchronous code between two    *)
(* awaits is one action.                                                   *)
(*                                                                         *)
(* Spec leaves the clock out: a timeout callback runs, and a sleep ends,   *)
(* at some moment after it was set.  SpecTimed adds the clock, in steps of *)
(* TickMs: a timeout fires and a sleep ends when its delay has elapsed, a  *)
(* typing probe answers within the instant it was asked in, and every      *)
(* other awaited call may take any time.                                   *)
(***************************************************************************)
EXTENDS Integers, Sequences, FiniteSets, TLC

\* ---------------------------------------------------------------- bounds
\* inbound messages that arrive in one run
MaxMsgs == 2
\* disturbances in one run: awaited calls that throw, typing probes that
\* answer "typing" (where they are counted) and status changes of the operator
MaxFaults == 2

\* ------------------------------------------------------ program constants
QUIET_WINDOW_MS == 25000
TYPING_WAIT_MS == 240000
TYPING_POLL_MS == 15000

RECURSIVE GCD(_, _)
GCD(a, b) == IF b = 0 THEN a ELSE GCD(b, a % b)

\* the step of the model's clock: every delay of the program is a multiple
TickMs == GCD(GCD(QUIET_WINDOW_MS, TYPING_POLL_MS), TYPING_WAIT_MS)

Min(a, b) == IF a <= b THEN a ELSE b

\* STATUS of config.js, and the legacy value isActiveStatus also accepts
STATUS == [PENDING |-> "pending", ACTIVE |-> "active",
           PAUSED |-> "paused", UNREGISTERED |-> "unregistered"]

StatusValues == {STATUS.PENDING, STATUS.ACTIVE, STATUS.PAUSED, STATUS.UNREGISTERED}

isActiveStatus(status) == status = STATUS.ACTIVE \/ status = "started"

\* ------------------------------------------------------------ characters
Digits == {"0", "1", "2", "3", "4", "5", "6", "7", "8", "9"}

\* String(value).replace(/[^\d]/g, ''), on a string given as its characters
normalizeNumber(value) == SelectSeq(value, LAMBDA ch : ch \in Digits)

\* s.slice(-n)
SliceLast(s, n) == IF Len(s) <= n THEN s ELSE SubSeq(s, Len(s) - n + 1, Len(s))

\* s.endsWith(t) and s.includes(t)
EndsWith(s, t) == Len(s) >= Len(t) /\ SliceLast(s, Len(t)) = t

Includes(s, t) == \E i \in 1..(Len(s) - Len(t) + 1) : SubSeq(s, i, i + Len(t) - 1) = t

\* ------------------------------------------------------------ the store
\* The rows of the contact table, in rowid order; only the status column
\* changes in the runs of this model.
ContactRows ==
  << [rowid |-> 1, cleanContactNumber |-> <<"0", "7", "7", "1", "2", "3", "4", "5", "6", "7">>],
     [rowid |-> 2, cleanContactNumber |-> <<"9", "4", "-", "1", "1", "2", "2", "2", "3", "3", "3", "4">>] >>

RowIds == {ContactRows[i].rowid : i \in DOMAIN ContactRows}

NoContact == 0

\* rows.find(...) over the row indices that satisfy the predicate: the first one
FirstRow(rows, hits) ==
  IF hits = {} THEN NoContact
  ELSE rows[CHOOSE i \in hits : \A j \in hits : i <= j].rowid

\* the lookup by the last nine digits alone, with no exact pass before it
findContactBySuffix(rows, number) ==
  IF Len(number) >= 9
    THEN FirstRow(rows, {i \in DOMAIN rows :
           SliceLast(normalizeNumber(rows[i].cleanContactNumber), 9) = SliceLast(number, 9)})
    ELSE NoContact

\* the rowid of the contact findContactByNumber returns, NoContact for null
findContactByNumber(rows, number) ==
  LET match == FirstRow(rows, {i \in DOMAIN rows :
                   normalizeNumber(rows[i].cleanContactNumber) = number})
  IN  IF match # NoContact THEN match
      ELSE IF Len(number) >= 9
        THEN FirstRow(rows, {i \in DOMAIN rows :
               SliceLast(normalizeNumber(rows[i].cleanContactNumber), 9) = SliceLast(number, 9)})
        ELSE NoContact

\* ------------------------------------------------------------ the chats
\* message.from of the chats that write to the bot, by a short name
ChatFrom ==
  [a |-> <<"9", "4", "7", "7", "1", "2", "3", "4", "5", "6", "7", "@", "c", ".", "u", "s">>,
   l |-> <<"5", "5", "5", "0", "1", "@", "l", "i", "d">>,
   g |-> <<"1", "2", "0", "3", "6", "3", "@", "g", ".", "u", "s">>]

ChatIds == DOMAIN ChatFrom

LidSuffix == <<"@", "l", "i", "d">>

GroupMark == <<"@", "g", ".", "u", "s">>

\* what message.getContact() of the linked-device sender can give as number:
\* the number of contact 2, a number no contact has, or none
LidNumbers ==
  { <<"+", "9", "4", "1", "1", "2", "2", "2", "3", "3", "3", "4">>,
    <<"9", "4", "7", "0", "0", "0", "0", "0", "0", "0", "0">>,
    <<>> }

\* ---------------------------------------------------------- the messages
Whitespace == " "

\* The transport's message object of an inbound event: its body as a
\* sequence of pieces (a piece of whitespace or a word), and its flags.
Message(kind, id) ==
  CASE kind = "text"  -> [fromMe |-> FALSE, hasMedia |-> FALSE, type |-> "chat",
                          body |-> <<Whitespace, "m" \o ToString(id), Whitespace>>]
    [] kind = "media" -> [fromMe |-> FALSE, hasMedia |-> TRUE, type |-> "image",
                          body |-> <<>>]
    [] kind = "blank" -> [fromMe |-> FALSE, hasMedia |-> FALSE, type |-> "chat",
                          body |-> <<Whitespace>>]
    [] kind = "self"  -> [fromMe |-> TRUE, hasMedia |-> FALSE, type |-> "chat",
                          body |-> <<"m" \o ToString(id)>>]
    [] kind = "call"  -> [fromMe |-> FALSE, hasMedia |-> FALSE, type |-> "call_log",
                          body |-> <<>>]

MsgKinds == {"text", "media", "blank", "self", "call"}

\* rawBody.trim() and the string the pieces make
RECURSIVE TrimLeft(_)
TrimLeft(body) ==
  IF body # <<>> /\ Head(body) = Whitespace THEN TrimLeft(Tail(body)) ELSE body

RECURSIVE TrimRight(_)
TrimRight(body) ==
  IF body # <<>> /\ body[Len(body)] = Whitespace
    THEN TrimRight(SubSeq(body, 1, Len(body) - 1)) ELSE body

RECURSIVE Concat(_)
Concat(pieces) == IF pieces = <<>> THEN "" ELSE Head(pieces) \o Concat(Tail(pieces))

Trim(body) == Concat(TrimRight(TrimLeft(body)))

\* lines 219-221 of handleIncomingMessage: the content that is buffered
ExtractContent(message) ==
  LET body == Trim(message.body)
  IN  IF body # "" THEN body
      ELSE IF message.hasMedia
        THEN "User sent media: " \o (IF message.type # "" THEN message.type ELSE "media")
        ELSE ""

\* batch.filter(Boolean).join('\n')
RECURSIVE JoinLines(_)
JoinLines(batch) ==
  LET kept == SelectSeq(batch, LAMBDA s : s # "")
  IN  IF kept = <<>> THEN ""
      ELSE IF Len(kept) = 1 THEN kept[1]
      ELSE kept[1] \o "\n" \o JoinLines(Tail(kept))

\* ------------------------------------------------------------- the state
VARIABLES
  conversation_started, \* the status column of the contact table, by rowid
  inFlight,             \* the routing map: chat -> inbox entry
  timeouts,             \* the setTimeout callbacks that are outstanding
  handlers,             \* the calls of handleIncomingMessage that are suspended
  loops,                \* the executions of processChatQueue's loop, by chat
  arrived,              \* inbound message events so far
  faults,               \* disturbances so far
  pushLog,              \* by chat: the messages pushed to its buffer, in push order
  calls,                \* by chat: the Language Responder calls, in call order
  sinceLast,            \* by timed chat: time since the last push, up to the quiet window
  sinceArr,             \* by timed chat: time since the last arrival, up to the quiet window
  burst,                \* by timed chat: "none" before its first message, "burst" while
                        \* all its messages came as one eligible burst, else "broken"
  rejected,             \* processChatQueue calls that ended by throwing
  lookup,               \* a call of findContactByNumber on its own: the rows, the
                        \* number asked for and, once it has returned, the row found
  request,              \* the HTTP request of the route layer that is in progress
  generated,            \* a call of generateGeminiResponse on its own: what the model
                        \* answered and, once it has returned, the result
  transport             \* the module state of the transport client: the client, its
                        \* interval timers and the re-initialization flags

vars == <<conversation_started, inFlight, timeouts, handlers, loops, arrived,
          faults, pushLog, calls, sinceLast, sinceArr,
          burst, rejected, lookup, request, generated, transport>>

\* what the auto-responder never touches
outside == <<lookup, request, generated, transport>>

ghosts == <<pushLog, calls, sinceLast, sinceArr, burst, rejected>>

NoTimer == 0

\* the entry handleIncomingMessage creates (lines 253-258)
NewEntry(content, id, contactInfo) ==
  [buffer |-> <<content>>, ids |-> <<id>>, timer |-> NoTimer,
   processing |-> FALSE, contactInfo |-> contactInfo]

\* a handle setTimeout has not given out yet
FreshTimer(tos, map) ==
  LET used == {t.id : t \in tos} \cup {map[c].timer : c \in DOMAIN map}
  IN  CHOOSE n \in 1..(Cardinality(used) + 1) : n \notin used

\* setTimeout(() => processChatQueue(entry, rowid, chatId, ...), QUIET_WINDOW_MS)
Timeout(id, c, rowid) == [id |-> id, chat |-> c, rowid |-> rowid, left |-> QUIET_WINDOW_MS]

\* clearTimeout(handle)
clearTimeout(tos, handle) == {t \in tos : t.id # handle}

\* what is the same in every initial state: nothing has arrived yet
Quiet ==
  /\ inFlight = <<>>
  /\ timeouts = {}
  /\ handlers = {}
  /\ loops = [c \in ChatIds |-> <<>>]
  /\ arrived = 0
  /\ faults = 0
  /\ pushLog = [c \in ChatIds |-> <<>>]
  /\ calls = [c \in ChatIds |-> <<>>]
  /\ rejected = 0

\* no call of findContactByNumber on its own
NoLookup == [rows |-> <<>>, number |-> <<>>, returned |-> FALSE, found |-> NoContact]

\* a key the object does not have
undefined == "(undefined)"

\* no call of generateGeminiResponse on its own
NoGenerate ==
  [hasKey |-> FALSE, ok |-> FALSE, parsed |-> <<>>, pc |-> "none",
   result |-> [action |-> undefined, reply |-> undefined, media |-> undefined,
               ack |-> undefined, reason |-> undefined]]

\* no request to the routes
NoResponse ==
  [code |-> 0, error |-> "", status |-> "", responded |-> 0, paused |-> FALSE, ack |-> ""]

NoRequest ==
  [route |-> "none", pc |-> "none", rowid |-> NoContact, chatId |-> <<>>,
   initialMessage |-> "", followupMessage |-> "", isRegistered |-> "",
   messageToSend |-> "", nextStatus |-> "", hasNonStatusValue |-> FALSE,
   log |-> <<>>, history |-> "", pending |-> <<>>, message |-> "",
   action |-> "", reply |-> "", media |-> "", ack |-> "",
   ackCall |-> "", reacted |-> 0,
   llm |-> 0, sent |-> <<>>, wrote |-> <<>>, response |-> NoResponse]

\* the module variables of the transport client as the module is loaded
\* (lines 605-616 of import_seller_background.js), with what the model keeps
\* beside them: the Client instances that exist, the intervals that run, the
\* timeout callbacks of scheduleReinit that are pending, and where the
\* callback that is running is suspended
NoClient == 0

NoTransport ==
  [started |-> FALSE, keepAliveMs |-> FALSE, statePollMs |-> FALSE,
   client |-> NoClient, created |-> 0, instances |-> {}, listening |-> {},
   keepAliveTimer |-> NoTimer, keepAlives |-> {}, pollTimer |-> NoTimer, polls |-> {},
   reinitScheduled |-> FALSE, reinitInProgress |-> FALSE, reinits |-> 0,
   pc |-> "idle", disconnects |-> 0]

\* Contact 1 has been initiated; contact 2 carries the legacy status.
Init ==
  /\ Quiet
  /\ conversation_started = [r \in RowIds |-> IF r = 1 THEN STATUS.ACTIVE ELSE "started"]
  /\ sinceLast = <<>>
  /\ sinceArr = <<>>
  /\ burst = <<>>
  /\ lookup = NoLookup
  /\ request = NoRequest
  /\ generated = NoGenerate
  /\ transport = NoTransport

\* a step that is a disturbance when `is` holds: the budget of the run
Disturbs(is) ==
  /\ is => faults < MaxFaults
  /\ faults' = IF is THEN faults + 1 ELSE faults

\* map.clear() in the place of map.delete(c)
MapClear(map, c) == <<>>

\* map.delete(c) and map.set(c, e)
MapDelete(map, c) == [k \in DOMAIN map \ {c} |-> map[k]]

MapSet(map, c, e) == [k \in DOMAIN map \cup {c} |-> IF k = c THEN e ELSE map[k]]

\* --------------------------------------------------- handleIncomingMessage
\* A message event: the handler runs to its first await (line 192), or
\* returns at once for a message of the bot itself (line 191).
Arrive(c, kind) ==
  /\ arrived < MaxMsgs
  /\ arrived' = arrived + 1
  /\ handlers' = IF Message(kind, arrived + 1).fromMe THEN handlers
                 ELSE handlers \cup {[id |-> arrived + 1, chat |-> c, kind |-> kind,
                                      pc |-> "reload", number |-> <<>>, rowid |-> NoContact]}
  /\ sinceArr' = [x \in DOMAIN sinceArr |->
                    IF x = c /\ kind # "self" THEN 0 ELSE sinceArr[x]]
  /\ burst' = [x \in DOMAIN burst |->
                 IF x # c \/ kind = "self" THEN burst[x]
                 ELSE IF burst[x] = "none" THEN "burst"
                 ELSE IF burst[x] = "burst" /\ sinceArr[x] < QUIET_WINDOW_MS THEN "burst"
                 ELSE "broken"]
  /\ UNCHANGED <<conversation_started, inFlight, timeouts, loops, faults,
                 pushLog, calls, sinceLast, rejected, outside>>

\* the handler returns (or rejects) without having buffered its message
Dropped(h) ==
  /\ handlers' = handlers \ {h}
  /\ burst' = [x \in DOMAIN burst |-> IF x = h.chat THEN "broken" ELSE burst[x]]
  /\ UNCHANGED <<conversation_started, inFlight, timeouts, loops, arrived, outside,
                 pushLog, calls, sinceLast, sinceArr, rejected>>

\* line 193: a message of a group chat is left alone
IsGroup(from) == Includes(from, GroupMark)

\* an awaited call of the handler threw before a contact was found: the
\* handler ends (lines 192, 205 and the catch of line 263 with contact = null)
HandlerThrows(h) ==
  /\ h \in handlers /\ h.pc \in {"reload", "lookup"}
  /\ Disturbs(TRUE)
  /\ Dropped(h)

\* resolveSenderNumber suspends only for a linked-device sender (line 39)
IsLid(from) == from = <<>> \/ EndsWith(from, LidSuffix)

\* the numbers resolveSenderNumber can return for a message from `from`
resolveSenderNumber(from) ==
  IF ~IsLid(from)
    THEN {normalizeNumber(from)}
    ELSE {normalizeNumber(n) : n \in LidNumbers}

\* lines 196-205: with the sender number, up to the await of the lookup
Resolved(h, number) ==
  IF number = <<>>
    THEN Dropped(h)
    ELSE /\ handlers' = (handlers \ {h}) \cup {[h EXCEPT !.pc = "lookup", !.number = number]}
         /\ UNCHANGED <<conversation_started, inFlight, timeouts, loops, arrived, outside,
                        ghosts>>

\* message.reload() returned: lines 192-205, up to the getContact of a
\* linked-device sender or else up to the lookup
ReloadReturns(h) ==
  /\ h \in handlers /\ h.pc = "reload"
  /\ IF IsGroup(ChatFrom[h.chat])
       THEN Dropped(h)
       ELSE IF IsLid(ChatFrom[h.chat])
         THEN /\ handlers' = (handlers \ {h}) \cup {[h EXCEPT !.pc = "resolve"]}
              /\ UNCHANGED <<conversation_started, inFlight, timeouts, loops, arrived, outside,
                             ghosts>>
         ELSE Resolved(h, normalizeNumber(ChatFrom[h.chat]))
  /\ UNCHANGED faults

\* message.getContact() of resolveSenderNumber returned, or threw (line 42)
ResolveReturns(h, number) ==
  /\ h \in handlers /\ h.pc = "resolve"
  /\ number \in resolveSenderNumber(ChatFrom[h.chat])
  /\ Resolved(h, number)
  /\ UNCHANGED faults

\* lines 206-231 without lines 214-217: the status is not looked at
AdmissibleAnyStatus(contact, status, content) ==
  contact # NoContact /\ content # ""

\* lines 206-231: what the handler decides once the rows are read
Admissible(contact, status, content) ==
  /\ contact # NoContact
  /\ isActiveStatus(status)
  /\ content # ""

\* findContactByNumber returned: lines 205-233, up to the await of resolveContactInfo
LookupReturns(h) ==
  /\ h \in handlers /\ h.pc = "lookup"
  /\ LET contact == findContactByNumber(ContactRows, h.number)
         status == IF contact = NoContact THEN "" ELSE conversation_started[contact]
         content == ExtractContent(Message(h.kind, h.id))
     IN  IF Admissible(contact, status, content)
           THEN /\ handlers' = (handlers \ {h}) \cup
                       {[h EXCEPT !.pc = "info", !.number = <<>>, !.rowid = contact]}
                /\ UNCHANGED <<conversation_started, inFlight, timeouts, loops, arrived, outside,
                               ghosts>>
           ELSE Dropped(h)
  /\ UNCHANGED faults

\* lines 244-248 without lines 241-243: the pending timeout is left to run
RearmTimerKeeps(entry, c, rowid, tos, map) ==
  LET handle == FreshTimer(tos, map)
  IN  IF ~entry.processing
        THEN [entry |-> [entry EXCEPT !.timer = handle],
              timeouts |-> tos \cup {Timeout(handle, c, rowid)}]
        ELSE [entry |-> entry, timeouts |-> tos]

\* lines 241-248 without the test of line 244: the timeout is armed even while
\* the drain loop runs
RearmTimerAlways(entry, c, rowid, tos, map) ==
  LET cleared == IF entry.timer # NoTimer THEN clearTimeout(tos, entry.timer) ELSE tos
      handle == FreshTimer(cleared, map)
  IN  [entry |-> [entry EXCEPT !.timer = handle],
       timeouts |-> cleared \cup {Timeout(handle, c, rowid)}]

\* lines 241-248: the timer of an existing entry when a message was pushed
RearmTimer(entry, c, rowid, tos, map) ==
  LET cleared == IF entry.timer # NoTimer THEN clearTimeout(tos, entry.timer) ELSE tos
      handle == FreshTimer(cleared, map)
  IN  IF ~entry.processing
        THEN [entry |-> [entry EXCEPT !.timer = handle],
              timeouts |-> cleared \cup {Timeout(handle, c, rowid)}]
        ELSE [entry |-> entry, timeouts |-> cleared]

\* lines 235-262: the message is buffered
Buffer(c, rowid, id, content, contactInfo, tos, map) ==
  IF c \in DOMAIN map
    THEN LET existing == [map[c] EXCEPT
                            !.buffer = Append(@, content),
                            !.ids = Append(@, id),
                            !.contactInfo = IF @ = "" /\ contactInfo # "" THEN contactInfo ELSE @]
             armed == RearmTimer(existing, c, rowid, tos, map)
         IN  [inFlight |-> MapSet(map, c, armed.entry), timeouts |-> armed.timeouts]
    ELSE LET handle == FreshTimer(tos, map)
         IN  [inFlight |-> MapSet(map, c, [NewEntry(content, id, contactInfo)
                                            EXCEPT !.timer = handle]),
              timeouts |-> tos \cup {Timeout(handle, c, rowid)}]

\* resolveContactInfo returned (it never throws): lines 233-262 and the finally
InfoReturns(h, contactInfo) ==
  /\ h \in handlers /\ h.pc = "info"
  /\ contactInfo \in {"", "info"}
  /\ Disturbs(contactInfo = "")
  /\ LET content == ExtractContent(Message(h.kind, h.id))
         next == Buffer(h.chat, h.rowid, h.id, content, contactInfo, timeouts, inFlight)
     IN  /\ inFlight' = next.inFlight
         /\ timeouts' = next.timeouts
         /\ pushLog' = [pushLog EXCEPT ![h.chat] = Append(@, [id |-> h.id, content |-> content])]
  /\ handlers' = handlers \ {h}
  /\ sinceLast' = [x \in DOMAIN sinceLast |-> IF x = h.chat THEN 0 ELSE sinceLast[x]]
  /\ UNCHANGED <<conversation_started, loops, arrived, outside, calls,
                 sinceArr, burst, rejected>>

\* --------------------------------------------------------- processChatQueue
\* the entry object a loop or a timer callback holds
EntryOf(map, c) ==
  IF c \in DOMAIN map THEN map[c]
  ELSE [buffer |-> <<>>, ids |-> <<>>, timer |-> NoTimer, processing |-> FALSE,
        contactInfo |-> ""]

NoResult == [action |-> "", reply |-> "", media |-> ""]

\* what the loop can get from generateGeminiResponse: the action, the reply
\* text and the media flag. The adapter turns an action it does not know into
\* pause; the loop does not rely on that, so "other" stands for any such string.
Results ==
  { [action |-> "reply", reply |-> "r", media |-> "none"],
    [action |-> "reply", reply |-> "r", media |-> "include"],
    [action |-> "reply", reply |-> "", media |-> "include"],
    [action |-> "reply", reply |-> "", media |-> "none"],
    [action |-> "pause", reply |-> "", media |-> "none"],
    [action |-> "pause", reply |-> "r", media |-> "include"],
    [action |-> "ack", reply |-> "", media |-> "none"],
    [action |-> "other", reply |-> "r", media |-> "none"] }

\* lines 113-116: an iteration starts and asks the first typing probe.
\* elapsed is Date.now() - start; typed says that no probe of the iteration
\* answered anything but "typing"; did lists what the iteration has sent.
NewIteration(rowid) ==
  [pc |-> "probe", rowid |-> rowid, content |-> "", ids |-> <<>>, result |-> NoResult,
   elapsed |-> 0, sleepLeft |-> 0, typed |-> TRUE, did |-> <<>>]

\* lines 110-111 without the flag: the call clears the timer handle only
MarkProcessingForgets(entry) == [entry EXCEPT !.timer = NoTimer]

\* lines 110-111
MarkProcessing(entry) == [entry EXCEPT !.processing = TRUE, !.timer = NoTimer]

\* lines 177-186 with a timeout of 0 ms: what is left in the buffer is drained at once
FinallyAtOnce(entry, c, rowid, tos, map) ==
  LET done == [entry EXCEPT !.processing = FALSE]
      handle == FreshTimer(tos, map)
  IN  IF Len(done.buffer) > 0
        THEN [inFlight |-> MapSet(map, c, [done EXCEPT !.timer = handle]),
              timeouts |-> tos \cup {[Timeout(handle, c, rowid) EXCEPT !.left = 0]}]
        ELSE [inFlight |-> MapDelete(map, c), timeouts |-> tos]

\* lines 177-186 without line 184: a drained entry stays in the map
FinallyKeeps(entry, c, rowid, tos, map) ==
  LET done == [entry EXCEPT !.processing = FALSE]
      handle == FreshTimer(tos, map)
  IN  IF Len(done.buffer) > 0
        THEN [inFlight |-> MapSet(map, c, [done EXCEPT !.timer = handle]),
              timeouts |-> tos \cup {Timeout(handle, c, rowid)}]
        ELSE [inFlight |-> MapSet(map, c, done), timeouts |-> tos]

\* lines 177-186: the finally of processChatQueue
Finally(entry, c, rowid, tos, map) ==
  LET done == [entry EXCEPT !.processing = FALSE]
      handle == FreshTimer(tos, map)
  IN  IF Len(done.buffer) > 0
        THEN [inFlight |-> MapSet(map, c, [done EXCEPT !.timer = handle]),
              timeouts |-> tos \cup {Timeout(handle, c, rowid)}]
        ELSE [inFlight |-> MapDelete(map, c), timeouts |-> tos]

RemoveAt(seq, i) == SubSeq(seq, 1, i - 1) \o SubSeq(seq, i + 1, Len(seq))

\* the loop was left (break, a false loop condition, or the catch): the finally
EndLoop(c, i, map) ==
  LET next == Finally(EntryOf(map, c), c, loops[c][i].rowid, timeouts, map)
  IN  /\ inFlight' = next.inFlight
      /\ timeouts' = next.timeouts
      /\ loops' = [loops EXCEPT ![c] = RemoveAt(@, i)]

\* `continue`: the loop condition of line 113 is evaluated again
Continue(c, i, map) ==
  IF Len(EntryOf(map, c).buffer) > 0
    THEN /\ loops' = [loops EXCEPT ![c][i] = NewIteration(loops[c][i].rowid)]
         /\ inFlight' = map
         /\ timeouts' = timeouts
    ELSE EndLoop(c, i, map)

\* A timeout callback runs: processChatQueue up to its first await (lines 106-116)
TimerFires(t, timed) ==
  /\ t \in timeouts
  /\ timed => t.left = 0
  /\ LET c == t.chat
         entry == EntryOf(inFlight, c)
         tos == timeouts \ {t}
     IN  IF entry.processing
           THEN /\ timeouts' = tos
                /\ UNCHANGED <<inFlight, loops>>
           ELSE LET map == MapSet(inFlight, c, MarkProcessing(entry))
                IN  IF Len(entry.buffer) > 0
                      THEN /\ inFlight' = map
                           /\ timeouts' = tos
                           /\ loops' = [loops EXCEPT ![c] = Append(@, NewIteration(t.rowid))]
                      ELSE LET next == Finally(EntryOf(map, c), c, t.rowid, tos, map)
                           IN  /\ inFlight' = next.inFlight
                               /\ timeouts' = next.timeouts
                               /\ loops' = loops
  /\ UNCHANGED <<conversation_started, handlers, arrived, outside, faults, ghosts>>

\* line 117 without the ceiling
KeepsWaitingWhileTyping(typing, elapsed) == typing

\* line 117: the loop goes on waiting while the chat types and the ceiling is not reached
KeepsWaiting(typing, elapsed) == typing /\ elapsed < TYPING_WAIT_MS

\* lines 129-134: the whole buffer is taken as one batch and joined
TakeBatch(c, i, L) ==
  LET entry == EntryOf(inFlight, c)
      content == JoinLines(entry.buffer)
      map == MapSet(inFlight, c, [entry EXCEPT !.buffer = <<>>, !.ids = <<>>])
  IN  IF content = ""
        THEN Continue(c, i, map)
        ELSE /\ loops' = [loops EXCEPT ![c][i] =
                            [L EXCEPT !.pc = "history", !.content = content,
                                      !.ids = entry.ids]]
             /\ inFlight' = map
             /\ timeouts' = timeouts

\* lines 114-124 without the try of lines 114 and 125-127: a probe that
\* throws leaves the loop body
ProbeOutcomeFatal(answer, elapsed) ==
  IF answer = "throw" THEN "catch"
  ELSE IF KeepsWaiting(answer = "typing", elapsed) THEN "sleep" ELSE "batch"

\* lines 114-127: what the typing wait does with the answer of a probe; an
\* exception is caught on the spot and the loop goes to the batch
ProbeOutcome(answer, elapsed) ==
  IF answer = "throw" THEN "batch"
  ELSE IF KeepsWaiting(answer = "typing", elapsed) THEN "sleep" ELSE "batch"

\* isChatTyping returned or threw: lines 116-134
ProbeReturns(c, i, answer, limited) ==
  /\ i \in DOMAIN loops[c] /\ loops[c][i].pc = "probe"
  /\ answer \in {"typing", "idle", "throw"}
  /\ Disturbs(answer = "throw" \/ (answer = "typing" /\ limited))
  /\ LET L == loops[c][i]
         outcome == ProbeOutcome(answer, L.elapsed)
     IN  CASE outcome = "sleep" ->
                /\ loops' = [loops EXCEPT ![c][i] =
                               [L EXCEPT !.pc = "sleep", !.sleepLeft = TYPING_POLL_MS]]
                /\ UNCHANGED <<inFlight, timeouts>>
           [] outcome = "batch" ->
                TakeBatch(c, i, [L EXCEPT !.typed = (answer = "typing")])
           [] OTHER ->
                /\ loops' = [loops EXCEPT ![c][i] =
                               [L EXCEPT !.pc = "catchPause", !.elapsed = 0, !.typed = TRUE]]
                /\ UNCHANGED <<inFlight, timeouts>>
  /\ UNCHANGED <<conversation_started, handlers, arrived, outside, ghosts>>

\* sleep(TYPING_POLL_MS) is over: the probe of line 120 is asked
SleepEnds(c, i, timed) ==
  /\ i \in DOMAIN loops[c] /\ loops[c][i].pc = "sleep"
  /\ timed => loops[c][i].sleepLeft = 0
  /\ loops' = [loops EXCEPT ![c][i].pc = "probe"]
  /\ UNCHANGED <<conversation_started, inFlight, timeouts, handlers, arrived, outside, faults, ghosts>>

\* the status of the loop's contact, as the store holds it
StatusOf(rowid) == IF rowid \in RowIds THEN conversation_started[rowid] ELSE ""

\* fetchChatMessages returned: lines 135-149, generateGeminiResponse is called
HistoryReturns(c, i) ==
  /\ i \in DOMAIN loops[c] /\ loops[c][i].pc = "history"
  /\ loops' = [loops EXCEPT ![c][i].pc = "llm"]
  /\ calls' = [calls EXCEPT ![c] = Append(@,
                 [message |-> loops[c][i].content, ids |-> loops[c][i].ids])]
  /\ UNCHANGED <<conversation_started, inFlight, timeouts, handlers, arrived, outside, faults,
                 pushLog, sinceLast, sinceArr, burst, rejected>>

\* line 156 without the test of the text and the media flag
IsReplyLoose(result) == result.action = "reply"

\* line 156
IsReply(result) ==
  result.action = "reply" /\ (result.reply # "" \/ result.media = "include")

\* lines 156-171: the first call the loop makes for a result
Dispatch(result) ==
  IF IsReply(result)
    THEN IF result.reply # "" THEN "sendText" ELSE "sendMedia"
    ELSE "pause"

\* generateGeminiResponse returned: lines 150-171, up to the next await
LlmReturns(c, i, result) ==
  /\ i \in DOMAIN loops[c] /\ loops[c][i].pc = "llm"
  /\ result \in Results
  /\ loops' = [loops EXCEPT ![c][i] =
                 [@ EXCEPT !.pc = Dispatch(result), !.result = result, !.elapsed = 0,
                           !.typed = TRUE]]
  /\ UNCHANGED <<conversation_started, inFlight, timeouts, handlers, arrived, outside, faults, ghosts>>

\* lines 158-167 without lines 160-162: the media flag is not looked at
AfterTextOnly(result) == "continue"

\* lines 158-160: after the text the media, if flagged
AfterText(result) == IF result.media = "include" THEN "sendMedia" ELSE "continue"

\* sendMessage returned: lines 158-167
SendTextReturns(c, i) ==
  /\ i \in DOMAIN loops[c] /\ loops[c][i].pc = "sendText"
  /\ LET L == [loops[c][i] EXCEPT !.did = Append(@, "text")]
     IN  IF AfterText(L.result) = "sendMedia"
           THEN /\ loops' = [loops EXCEPT ![c][i] = [L EXCEPT !.pc = "sendMedia"]]
                /\ UNCHANGED <<inFlight, timeouts>>
           ELSE Continue(c, i, inFlight)
  /\ UNCHANGED <<conversation_started, handlers, arrived, outside, faults, ghosts>>

\* sendMedia returned: lines 161-167
SendMediaReturns(c, i) ==
  /\ i \in DOMAIN loops[c] /\ loops[c][i].pc = "sendMedia"
  /\ Continue(c, i, inFlight)
  /\ UNCHANGED <<conversation_started, handlers, arrived, outside, faults, ghosts>>

\* setContactStatus(db, rowId, STATUS.PAUSED) of pauseContact
setContactStatus(store, rowid, status) ==
  IF rowid \in DOMAIN store THEN [store EXCEPT ![rowid] = status] ELSE store

\* pauseContact returned: line 171 and the break, or line 176; then the finally
PauseReturns(c, i) ==
  /\ i \in DOMAIN loops[c] /\ loops[c][i].pc \in {"pause", "catchPause"}
  /\ conversation_started' = setContactStatus(conversation_started, loops[c][i].rowid, STATUS.PAUSED)
  /\ EndLoop(c, i, inFlight)
  /\ UNCHANGED <<handlers, arrived, outside, faults, ghosts>>

\* a catch inside the while loop that goes on with the next iteration
CaughtGoesOn(L) == [L EXCEPT !.pc = "probe", !.elapsed = 0, !.typed = TRUE]

\* line 174-176: an exception of the loop body is caught and pauseContact called
Caught(L) == [L EXCEPT !.pc = "catchPause", !.elapsed = 0, !.typed = TRUE]

\* an awaited call of the loop body threw (lines 135, 144, 158, 161, 171)
CallThrows(c, i) ==
  /\ i \in DOMAIN loops[c]
  /\ loops[c][i].pc \in {"history", "llm", "sendText", "sendMedia", "pause"}
  /\ Disturbs(TRUE)
  /\ loops' = [loops EXCEPT ![c][i] = Caught(@)]
  /\ UNCHANGED <<conversation_started, inFlight, timeouts, handlers, arrived, outside,
                 ghosts>>

\* pauseContact of the catch block threw: the finally runs and the call rejects
CatchThrows(c, i) ==
  /\ i \in DOMAIN loops[c] /\ loops[c][i].pc = "catchPause"
  /\ Disturbs(TRUE)
  /\ rejected' = rejected + 1
  /\ EndLoop(c, i, inFlight)
  /\ UNCHANGED <<conversation_started, handlers, arrived, outside,
                 pushLog, calls, sinceLast, sinceArr, burst>>

\* ------------------------------------------------------------ the operator
\* an override that also forgets what is buffered and armed for the chats
SetStatusResets(rowid, status) ==
  /\ rowid \in RowIds /\ status \in StatusValues
  /\ status # conversation_started[rowid]
  /\ Disturbs(TRUE)
  /\ conversation_started' = [conversation_started EXCEPT ![rowid] = status]
  /\ inFlight' = <<>>
  /\ timeouts' = {}
  /\ UNCHANGED <<handlers, loops, arrived, outside, ghosts>>

\* PATCH /api/contacts/:rowid/status with an allowed status
SetStatus(rowid, status) ==
  /\ rowid \in RowIds /\ status \in StatusValues
  /\ status # conversation_started[rowid]
  /\ Disturbs(TRUE)
  /\ conversation_started' = [conversation_started EXCEPT ![rowid] = status]
  /\ UNCHANGED <<inFlight, timeouts, handlers, loops, arrived, outside, ghosts>>

\* ---------------------------------------------------------------- time
Saturate(t) == Min(t + TickMs, QUIET_WINDOW_MS)

\* something is due in this instant: time cannot pass before it has run
Due ==
  \/ \E t \in timeouts : t.left = 0
  \/ \E c \in ChatIds : \E i \in DOMAIN loops[c] :
       \/ loops[c][i].pc = "probe"
       \/ loops[c][i].pc = "sleep" /\ loops[c][i].sleepLeft = 0

Waits(L) == L.pc \in {"probe", "sleep"}

Tick ==
  /\ ~Due
  /\ timeouts' = {[t EXCEPT !.left = @ - TickMs] : t \in timeouts}
  /\ loops' = [c \in ChatIds |-> [i \in DOMAIN loops[c] |->
                 [loops[c][i] EXCEPT
                    !.elapsed = IF Waits(loops[c][i]) THEN @ + TickMs ELSE @,
                    !.sleepLeft = IF loops[c][i].pc = "sleep" THEN @ - TickMs ELSE @]]]
  /\ sinceLast' = [c \in DOMAIN sinceLast |-> Saturate(sinceLast[c])]
  /\ sinceArr' = [c \in DOMAIN sinceArr |-> Saturate(sinceArr[c])]
  /\ UNCHANGED <<conversation_started, inFlight, handlers, arrived, outside, faults,
                 pushLog, calls, burst, rejected>>

\* ------------------------------------------------------- the specification
\* the numbers a getContact can give
ResolvedNumbers == {normalizeNumber(n) : n \in LidNumbers}

\* the steps of the suspended handlers
HandlerStep ==
  \/ \E h \in handlers : ReloadReturns(h)
  \/ \E h \in handlers : HandlerThrows(h)
  \/ \E h \in handlers, n \in ResolvedNumbers : ResolveReturns(h, n)
  \/ \E h \in handlers : LookupReturns(h)
  \/ \E h \in handlers, info \in {"", "info"} : InfoReturns(h, info)

\* the steps of the drain loops past the typing wait
LoopStep ==
  \/ \E c \in ChatIds, i \in 1..2 : HistoryReturns(c, i)
  \/ \E c \in ChatIds, i \in 1..2, result \in Results : LlmReturns(c, i, result)
  \/ \E c \in ChatIds, i \in 1..2 : SendTextReturns(c, i)
  \/ \E c \in ChatIds, i \in 1..2 : SendMediaReturns(c, i)
  \/ \E c \in ChatIds, i \in 1..2 : PauseReturns(c, i)
  \/ \E c \in ChatIds, i \in 1..2 : CallThrows(c, i)
  \/ \E c \in ChatIds, i \in 1..2 : CatchThrows(c, i)

Next ==
  \/ \E c \in ChatIds, kind \in MsgKinds : Arrive(c, kind)
  \/ HandlerStep
  \/ \E t \in timeouts : TimerFires(t, FALSE)
  \/ \E c \in ChatIds, i \in 1..2, answer \in {"typing", "idle", "throw"} :
       ProbeReturns(c, i, answer, TRUE)
  \/ \E c \in ChatIds, i \in 1..2 : SleepEnds(c, i, FALSE)
  \/ LoopStep
  \/ \E r \in RowIds, status \in StatusValues : SetStatus(r, status)

Spec == Init /\ [][Next]_vars

\* ------------------------------------------------ the specification in time
\* One chat of an active contact, with the clock: a timeout callback runs when
\* its delay is over, a sleep ends when its delay is over, a typing probe
\* answers at once, every other awaited call takes any time. The typing
\* answers are not counted, the operator is away.
TimedChats == {"a"}

InitTimed ==
  /\ Quiet
  /\ conversation_started = [r \in RowIds |-> IF r = 1 THEN STATUS.ACTIVE ELSE "started"]
  /\ sinceLast = [c \in TimedChats |-> QUIET_WINDOW_MS]
  /\ sinceArr = [c \in TimedChats |-> QUIET_WINDOW_MS]
  /\ burst = [c \in TimedChats |-> "none"]
  /\ lookup = NoLookup
  /\ request = NoRequest
  /\ generated = NoGenerate
  /\ transport = NoTransport

HandlerStepTimed ==
  \/ \E h \in handlers : ReloadReturns(h)
  \/ \E h \in handlers : LookupReturns(h)
  \/ \E h \in handlers, info \in {"", "info"} : InfoReturns(h, info)

NextTimed ==
  \/ \E c \in TimedChats, kind \in MsgKinds : Arrive(c, kind)
  \/ HandlerStepTimed
  \/ \E t \in timeouts : TimerFires(t, TRUE)
  \/ \E c \in ChatIds, i \in 1..2, answer \in {"typing", "idle", "throw"} :
       ProbeReturns(c, i, answer, FALSE)
  \/ \E c \in ChatIds, i \in 1..2 : SleepEnds(c, i, TRUE)
  \/ LoopStep
  \/ Tick

SpecTimed == InitTimed /\ [][NextTimed]_vars

\* ------------------------------------------------ every awaited call returns
\* The auto-responder with the steps that are the program's own under weak
\* fairness: an awaited call of a handler or of a drain loop returns or
\* throws, a timeout that is armed fires. Message events come from outside
\* and owe nothing; there is no operator.
LiveChats == {"a", "l"}

Returning ==
  \/ HandlerStep
  \/ \E t \in timeouts : TimerFires(t, FALSE)
  \/ \E c \in ChatIds, i \in 1..2, answer \in {"typing", "idle", "throw"} :
       ProbeReturns(c, i, answer, TRUE)
  \/ \E c \in ChatIds, i \in 1..2 : SleepEnds(c, i, FALSE)
  \/ LoopStep

NextLive ==
  \/ \E c \in LiveChats, kind \in MsgKinds : Arrive(c, kind)
  \/ Returning

SpecLive == Init /\ [][NextLive]_vars /\ WF_vars(Returning)

\* ------------------------------------------------- the lookup on its own
\* findContactByNumber over every small table and every inbound number below.

MaxRows == 2

\* clean_contact_number as the table can hold it
StoredNumbers ==
  { <<"0", "7", "7", "1", "2", "3", "4", "5", "6", "7">>,
    <<"+", "9", "4", "7", "7", "1", "2", "3", "4", "5", "6", "7">>,
    <<"7", "7", "1", "2", "3", "4", "5", "6", "7">>,
    <<"9", "4", "-", "1", "1", "2", "2", "2", "3", "3", "3", "4">> }

\* the digits-only number the handler asks for
InboundNumbers ==
  { <<"9", "4", "7", "7", "1", "2", "3", "4", "5", "6", "7">>,
    <<"0", "7", "7", "1", "2", "3", "4", "5", "6", "7">>,
    <<"7", "7", "1", "2", "3", "4", "5", "6", "7">>,
    <<"2", "3", "4", "5", "6", "7">>,
    <<"9", "4", "7", "0", "0", "0", "0", "0", "0", "0", "0">> }

\* SELECT rowid, clean_contact_number FROM contacts: rowids in table order
Tables ==
  UNION { { [i \in 1..n |-> [rowid |-> i, cleanContactNumber |-> cells[i]]] :
              cells \in [1..n -> StoredNumbers] } : n \in 0..MaxRows }

\* the auto-responder itself, left alone by a lookup on its own
responder ==
  <<conversation_started, inFlight, timeouts, handlers, loops, arrived, faults,
    pushLog, calls, sinceLast, sinceArr, burst, rejected>>

InitLookup ==
  /\ Quiet
  /\ conversation_started = [r \in RowIds |-> STATUS.ACTIVE]
  /\ sinceLast = <<>>
  /\ sinceArr = <<>>
  /\ burst = <<>>
  /\ \E rows \in Tables, number \in InboundNumbers :
       lookup = [rows |-> rows, number |-> number, returned |-> FALSE, found |-> NoContact]
  /\ request = NoRequest
  /\ generated = NoGenerate
  /\ transport = NoTransport

\* await findContactByNumber(db, number) returns
Lookup ==
  /\ ~lookup.returned
  /\ lookup' = [lookup EXCEPT !.returned = TRUE,
                              !.found = findContactByNumber(lookup.rows, lookup.number)]
  /\ UNCHANGED <<responder, request, generated, transport>>

NextLookup == Lookup

SpecLookup == InitLookup /\ [][NextLookup]_vars

\* ------------------------------------------------------------ the routes
\* The route layer that goes with this auto-responder: POST .../respond and
\* POST .../initiate. One request is followed from its arrival to its
\* response; every await of the handler is a step.

MaxLog == 2

\* a contact whose number was never filled in
RouteRows == Append(ContactRows, [rowid |-> 3, cleanContactNumber |-> <<>>])

RouteRowIds == {RouteRows[i].rowid : i \in DOMAIN RouteRows}

\* req.params.rowid after parseRowId: 0 is what !rowId rejects, 4 is no row
RowIdParams == 0..4

\* the auto-responder's queue state, which the routes leave alone
engine ==
  <<inFlight, timeouts, handlers, loops, arrived, faults, pushLog, calls,
    sinceLast, sinceArr, burst, rejected>>

\* toChatId(contactNumber): the empty tuple stands for null
toChatId(contactNumber) ==
  LET sanitizedNumber == normalizeNumber(contactNumber)
  IN  IF sanitizedNumber = <<>> THEN <<>>
      ELSE sanitizedNumber \o <<"@", "c", ".", "u", "s">>

\* loadContactForChat(db, rowId): the index of the row, 0 when there is none
loadContactForChat(rowId) ==
  IF \E i \in DOMAIN RouteRows : RouteRows[i].rowid = rowId
    THEN CHOOSE i \in DOMAIN RouteRows : RouteRows[i].rowid = rowId
    ELSE 0

\* res.status(code).json(...) and the return that follows it
Fail(code, error) ==
  [request EXCEPT !.pc = "done", !.response.code = code, !.response.error = error]

\* updateStatus(db, rowId, status)
updateStatus(rowId, status) ==
  conversation_started' = [conversation_started EXCEPT ![rowId] = status]

\* getMessageContent(message) of the transport client
getMessageContent(message) ==
  LET body == Trim(message.body)
  IN  IF body # "" THEN body
      ELSE IF message.hasMedia \/ message.type \in {"image", "video", "audio", "ptt",
                "document", "sticker", "album", "location", "vcard", "multi_vcard"}
        THEN "User sent [media:" \o (IF message.type # "" THEN message.type ELSE "media") \o "]"
      ELSE IF message.type = "call_log" THEN "User sent [call:log]"
      ELSE ""

\* what chat.fetchMessages can return: up to MaxLog messages, each with the
\* second it was sent in, in any order; a message has its place in the list
\* as its id, or no usable id (0)
Stamps == {1, 2}

NoId == 0

Logs ==
  UNION { { [i \in 1..n |-> Message(kinds[i], i) @@
                            [timestamp |-> stamps[i], id |-> IF hasId[i] THEN i ELSE NoId]] :
              kinds \in [1..n -> MsgKinds], stamps \in [1..n -> Stamps],
              hasId \in [1..n -> BOOLEAN] } : n \in 0..MaxLog }

\* .sort((a, b) => a.timestamp - b.timestamp), which is stable
RECURSIVE SortByTimestamp(_)
SortByTimestamp(messages) ==
  IF messages = <<>> THEN <<>>
  ELSE LET last   == messages[Len(messages)]
           sorted == SortByTimestamp(SubSeq(messages, 1, Len(messages) - 1))
           before == Cardinality({i \in DOMAIN sorted : sorted[i].timestamp <= last.timestamp})
       IN  SubSeq(sorted, 1, before) \o <<last>> \o SubSeq(sorted, before + 1, Len(sorted))

\* formatMessageLine(message); the empty string stands for null
formatMessageLine(message) ==
  LET body == Trim(message.body)
      who  == IF message.fromMe THEN "me: " ELSE "them: "
  IN  IF body # "" THEN who \o body
      ELSE IF message.hasMedia \/ message.type \in {"image", "video", "audio", "ptt",
                "document", "sticker", "album", "location", "vcard", "multi_vcard"}
        THEN who \o "[media:" \o (IF message.type # "" THEN message.type ELSE "media") \o "]"
      ELSE IF message.type = "call_log" THEN who \o "[call:log]"
      ELSE ""

\* buildCleanChatlog(messages)
buildCleanChatlog(messages) ==
  JoinLines([i \in DOMAIN messages |-> formatMessageLine(messages[i])])

\* snapshot.history of getUnrepliedMessagesSnapshot: the chat log of the
\* messages up to the last outgoing one
History(messages) ==
  LET normalized        == SortByTimestamp(messages)
      outgoing          == {i \in DOMAIN normalized : normalized[i].fromMe}
      lastOutgoingIndex == IF outgoing = {} THEN 0
                           ELSE CHOOSE i \in outgoing : \A j \in outgoing : j <= i
  IN  buildCleanChatlog(SubSeq(normalized, 1, lastOutgoingIndex))

\* the snapshot taken of the messages as they were fetched, without the sort
PendingUnsorted(messages) ==
  LET normalized        == messages
      outgoing          == {i \in DOMAIN normalized : normalized[i].fromMe}
      lastOutgoingIndex == IF outgoing = {} THEN 0
                           ELSE CHOOSE i \in outgoing : \A j \in outgoing : j <= i
      after    == SubSeq(normalized, lastOutgoingIndex + 1, Len(normalized))
      inbound  == SelectSeq(after, LAMBDA m : ~m.fromMe)
      mapped   == [i \in DOMAIN inbound |->
                     [content |-> getMessageContent(inbound[i]), messageId |-> inbound[i].id]]
  IN  SelectSeq(mapped, LAMBDA message : message.content # "")

\* snapshot.pending of getUnrepliedMessagesSnapshot: the inbound messages
\* after the last outgoing one that have content
Pending(messages) ==
  LET normalized        == SortByTimestamp(messages)
      outgoing          == {i \in DOMAIN normalized : normalized[i].fromMe}
      lastOutgoingIndex == IF outgoing = {} THEN 0
                           ELSE CHOOSE i \in outgoing : \A j \in outgoing : j <= i
      after    == SubSeq(normalized, lastOutgoingIndex + 1, Len(normalized))
      inbound  == SelectSeq(after, LAMBDA m : ~m.fromMe)
      mapped   == [i \in DOMAIN inbound |->
                     [content |-> getMessageContent(inbound[i]), messageId |-> inbound[i].id]]
  IN  SelectSeq(mapped, LAMBDA message : message.content # "")

\* pending.slice().reverse().find((item) => item.messageId), as the id
\* found: the first pending message with an id
FirstPendingId(pending) ==
  LET withId == {i \in DOMAIN pending : pending[i].messageId # NoId}
  IN  IF withId = {} THEN NoId
      ELSE pending[CHOOSE i \in withId : \A j \in withId : i <= j].messageId

\* pending.slice().reverse().find((item) => item.messageId), as the id found
LastPendingId(pending) ==
  LET withId == {i \in DOMAIN pending : pending[i].messageId # NoId}
  IN  IF withId = {} THEN NoId
      ELSE pending[CHOOSE i \in withId : \A j \in withId : j <= i].messageId

\* result.ack of an ack answer
Acks == {"seen", "thumbs_up", ""}

\* ---- POST /api/contacts/:rowid/respond
\* the request arrives: the checks before the first await
RespondArrives(rowid, ready, propertyContext) ==
  /\ request.route = "none"
  /\ request' =
       LET req == [request EXCEPT !.route = "respond", !.rowid = rowid]
       IN  IF ~ready THEN [req EXCEPT !.pc = "done", !.response.code = 503,
                                      !.response.error = "WhatsApp client not ready. Scan the QR code in the terminal."]
           ELSE IF ~propertyContext THEN [req EXCEPT !.pc = "done", !.response.code = 500,
                                                     !.response.error = "Property context not available."]
           ELSE IF rowid = 0 THEN [req EXCEPT !.pc = "done", !.response.code = 400,
                                              !.response.error = "Invalid contact id."]
           ELSE [req EXCEPT !.pc = "load"]
  /\ UNCHANGED <<conversation_started, engine, lookup, generated, transport>>

\* await loadContactForChat(db, rowId) returns or throws; toChatId
RespondLoaded(ok) ==
  /\ request.route = "respond" /\ request.pc = "load"
  /\ request' =
       LET row == loadContactForChat(request.rowid)
       IN  IF ~ok THEN Fail(500, "Failed to respond with LLM.")
           ELSE IF row = 0 THEN Fail(404, "Contact not found.")
           ELSE IF toChatId(RouteRows[row].cleanContactNumber) = <<>> THEN Fail(400, "Contact missing cleanContactNumber.")
           ELSE [request EXCEPT !.pc = "chat",
                                !.chatId = toChatId(RouteRows[row].cleanContactNumber)]
  /\ UNCHANGED <<conversation_started, engine, lookup, generated, transport>>

\* await getChatById(chatId) returns a chat, returns none, or throws
RespondChat(outcome) ==
  /\ request.route = "respond" /\ request.pc = "chat"
  /\ request' = CASE outcome = "throw" -> Fail(500, "Failed to respond with LLM.")
                  [] outcome = "none"  -> Fail(404, "Chat not found.")
                  [] OTHER             -> [request EXCEPT !.pc = "contact"]
  /\ UNCHANGED <<conversation_started, engine, lookup, generated, transport>>

\* await chat.getContact() returns or throws; the throw is caught on the spot
RespondContact(ok) ==
  /\ request.route = "respond" /\ request.pc = "contact"
  /\ request' = [request EXCEPT !.pc = "snapshot"]
  /\ UNCHANGED <<conversation_started, engine, lookup, generated, transport>>

\* await getUnrepliedMessagesSnapshot(chatId, {limit: 250}) returns null,
\* throws, or returns the snapshot of the messages fetched
RespondSnapshot(outcome, messages) ==
  /\ request.route = "respond" /\ request.pc = "snapshot"
  /\ request' =
       LET pending         == Pending(messages)
           combinedContent == JoinLines([i \in DOMAIN pending |-> pending[i].content])
           ok200           == [request EXCEPT !.pc = "done", !.log = messages,
                                              !.history = History(messages),
                                              !.pending = pending, !.response.code = 200]
       IN  CASE outcome = "throw" -> Fail(500, "Failed to respond with LLM.")
             [] outcome = "null"  -> Fail(404, "Chat not found.")
             [] OTHER ->
                  IF Len(pending) = 0 THEN ok200
                  ELSE IF combinedContent = "" THEN ok200
                  ELSE [request EXCEPT !.pc = "llm", !.log = messages,
                                       !.history = History(messages), !.pending = pending,
                                       !.message = combinedContent, !.llm = @ + 1]
  /\ UNCHANGED <<conversation_started, engine, lookup, generated, transport>>

\* await generateGeminiResponse(...) returns a result or throws
RespondLlm(ok, result, ack) ==
  /\ request.route = "respond" /\ request.pc = "llm"
  /\ request' =
       LET req == [request EXCEPT !.action = result.action, !.reply = result.reply,
                                  !.media = result.media,
                                  !.ack = IF result.action = "ack" THEN ack ELSE ""]
       IN  IF ~ok THEN Fail(500, "Failed to respond with LLM.")
           ELSE IF result.action = "reply" /\ (result.reply # "" \/ result.media = "include")
             THEN [req EXCEPT !.pc = IF result.reply # "" THEN "sendText" ELSE "sendMedia"]
           ELSE IF result.action = "ack"
             THEN IF ack = "thumbs_up" /\ LastPendingId(request.pending) # NoId
                    THEN [req EXCEPT !.pc = "ack", !.ackCall = "reactToMessage",
                                     !.reacted = LastPendingId(request.pending)]
                    ELSE [req EXCEPT !.pc = "ack", !.ackCall = "sendSeen"]
           ELSE [req EXCEPT !.pc = "pause"]
  /\ UNCHANGED <<conversation_started, engine, lookup, generated, transport>>

\* await sendMessage(chatId, String(result.reply)) returns or throws
RespondSendText(ok) ==
  /\ request.route = "respond" /\ request.pc = "sendText"
  /\ request' =
       IF ~ok THEN Fail(500, "Failed to respond with LLM.")
       ELSE IF request.media = "include"
         THEN [request EXCEPT !.pc = "sendMedia", !.sent = Append(@, "text")]
       ELSE [request EXCEPT !.pc = "done", !.sent = Append(@, "text"),
                            !.response.code = 200, !.response.responded = 1]
  /\ UNCHANGED <<conversation_started, engine, lookup, generated, transport>>

\* a media send whose failure is swallowed
RespondSendMediaQuiet(ok) ==
  /\ request.route = "respond" /\ request.pc = "sendMedia"
  /\ request' = [request EXCEPT !.pc = "done",
                                !.sent = IF ok THEN Append(@, "media") ELSE @,
                                !.response.code = 200, !.response.responded = 1]
  /\ UNCHANGED <<conversation_started, engine, lookup, generated, transport>>

\* await sendMedia(chatId, IMAGE_DIRECTORY) returns or throws
RespondSendMedia(ok) ==
  /\ request.route = "respond" /\ request.pc = "sendMedia"
  /\ request' =
       IF ~ok THEN Fail(500, "Failed to respond with LLM.")
       ELSE [request EXCEPT !.pc = "done", !.sent = Append(@, "media"),
                            !.response.code = 200, !.response.responded = 1]
  /\ UNCHANGED <<conversation_started, engine, lookup, generated, transport>>

\* await reactToMessage(...) or await sendSeen(chatId) returns or throws
RespondAck(ok) ==
  /\ request.route = "respond" /\ request.pc = "ack"
  /\ request' =
       IF ~ok THEN Fail(500, "Failed to respond with LLM.")
       ELSE [request EXCEPT !.pc = "done",
               !.sent = Append(@, IF request.ackCall = "reactToMessage"
                                    THEN "thumbs_up" ELSE "seen"),
               !.response.code = 200,
               !.response.ack = IF request.ack = "" THEN "seen" ELSE request.ack]
  /\ UNCHANGED <<conversation_started, engine, lookup, generated, transport>>

\* await updateStatus(db, rowId, STATUS.PAUSED) returns or throws
RespondPause(ok) ==
  /\ request.route = "respond" /\ request.pc = "pause"
  /\ IF ok
       THEN /\ updateStatus(request.rowid, STATUS.PAUSED)
            /\ request' = [request EXCEPT !.pc = "done", !.wrote = Append(@, STATUS.PAUSED),
                                          !.response.code = 200, !.response.paused = TRUE]
       ELSE /\ request' = Fail(500, "Failed to respond with LLM.")
            /\ UNCHANGED conversation_started
  /\ UNCHANGED <<engine, lookup, generated, transport>>

RespondStep ==
  \/ \E rowid \in RowIdParams, ready \in BOOLEAN, propertyContext \in BOOLEAN :
       RespondArrives(rowid, ready, propertyContext)
  \/ \E ok \in BOOLEAN : RespondLoaded(ok)
  \/ \E outcome \in {"chat", "none", "throw"} : RespondChat(outcome)
  \/ \E ok \in BOOLEAN : RespondContact(ok)
  \/ \E outcome \in {"snapshot", "null", "throw"}, messages \in Logs :
       RespondSnapshot(outcome, messages)
  \/ \E ok \in BOOLEAN, result \in Results, ack \in Acks : RespondLlm(ok, result, ack)
  \/ \E ok \in BOOLEAN : RespondSendText(ok)
  \/ \E ok \in BOOLEAN : RespondSendMedia(ok)
  \/ \E ok \in BOOLEAN : RespondAck(ok)
  \/ \E ok \in BOOLEAN : RespondPause(ok)

\* ---- POST /api/contacts/:rowid/initiate
\* the configured opening messages: either may be missing
InitialMessages == {"", "hello"}

FollowupMessages == {"", "hello again"}

\* the request arrives: the checks before the first await
InitiateArrives(rowid, ready, initialMessage, followupMessage) ==
  /\ request.route = "none"
  /\ request' =
       LET req == [request EXCEPT !.route = "initiate", !.rowid = rowid,
                                  !.initialMessage = initialMessage,
                                  !.followupMessage = followupMessage]
       IN  IF ~ready THEN [req EXCEPT !.pc = "done", !.response.code = 503,
                                      !.response.error = "WhatsApp client not ready. Scan the QR code in the terminal."]
           ELSE IF rowid = 0 THEN [req EXCEPT !.pc = "done", !.response.code = 400,
                                              !.response.error = "Invalid contact id."]
           ELSE [req EXCEPT !.pc = "load"]
  /\ UNCHANGED <<conversation_started, engine, lookup, generated, transport>>

\* await loadContactForChat(db, rowId) returns or throws; toChatId
InitiateLoaded(ok) ==
  /\ request.route = "initiate" /\ request.pc = "load"
  /\ request' =
       LET row == loadContactForChat(request.rowid)
       IN  IF ~ok THEN Fail(500, "Failed to initiate conversation.")
           ELSE IF row = 0 THEN Fail(404, "Contact not found.")
           ELSE IF toChatId(RouteRows[row].cleanContactNumber) = <<>> THEN Fail(400, "Contact missing cleanContactNumber.")
           ELSE [request EXCEPT !.pc = "registered",
                                !.chatId = toChatId(RouteRows[row].cleanContactNumber)]
  /\ UNCHANGED <<conversation_started, engine, lookup, generated, transport>>

\* await isRegisteredUser(chatId) answers yes or no, or throws
InitiateRegistered(answer) ==
  /\ request.route = "initiate" /\ request.pc = "registered"
  /\ request' =
       CASE answer = "throw" -> Fail(500, "Failed to initiate conversation.")
         [] answer = "no"    -> [request EXCEPT !.pc = "unregister", !.isRegistered = "no"]
         [] OTHER ->
              IF request.initialMessage = ""
                THEN [request EXCEPT !.pc = "done", !.response.code = 500,
                                     !.response.error = "Initial message is not configured.",
                                     !.isRegistered = "yes"]
                ELSE [request EXCEPT !.pc = "chat", !.isRegistered = "yes",
                                     !.messageToSend = request.initialMessage]
  /\ UNCHANGED <<conversation_started, engine, lookup, generated, transport>>

\* await updateStatus(db, rowId, STATUS.UNREGISTERED) returns or throws
InitiateUnregister(ok) ==
  /\ request.route = "initiate" /\ request.pc = "unregister"
  /\ IF ok
       THEN /\ updateStatus(request.rowid, STATUS.UNREGISTERED)
            /\ request' = [request EXCEPT !.pc = "done",
                                          !.wrote = Append(@, STATUS.UNREGISTERED),
                                          !.response.code = 200,
                                          !.response.status = STATUS.UNREGISTERED]
       ELSE /\ request' = Fail(500, "Failed to initiate conversation.")
            /\ UNCHANGED conversation_started
  /\ UNCHANGED <<engine, lookup, generated, transport>>

\* await getChatById(chatId) returns a chat, returns none, or throws
InitiateChat(outcome) ==
  /\ request.route = "initiate" /\ request.pc = "chat"
  /\ request' = CASE outcome = "throw" -> Fail(500, "Failed to initiate conversation.")
                  [] outcome = "none"  -> [request EXCEPT !.pc = "send"]
                  [] OTHER             -> [request EXCEPT !.pc = "sync"]
  /\ UNCHANGED <<conversation_started, engine, lookup, generated, transport>>

\* await chat.syncHistory() returns or throws; the throw is caught and logged
InitiateSync(ok) ==
  /\ request.route = "initiate" /\ request.pc = "sync"
  /\ request' = [request EXCEPT !.pc = IF ok THEN "history" ELSE "send"]
  /\ UNCHANGED <<conversation_started, engine, lookup, generated, transport>>

\* await fetchChatMessages(chatId, {limit: 5}) returns null or so many
\* messages, or throws; more than one message makes it a follow-up
InitiateHistory(ok, messages) ==
  /\ request.route = "initiate" /\ request.pc = "history"
  /\ request' =
       LET hasHistory == ok /\ messages > 1
       IN  [request EXCEPT !.pc = "send",
              !.messageToSend = IF hasHistory
                                  THEN IF request.followupMessage # ""
                                         THEN request.followupMessage
                                         ELSE request.initialMessage
                                  ELSE @]
  /\ UNCHANGED <<conversation_started, engine, lookup, generated, transport>>

\* a send whose failure is let pass
InitiateSendAnyway(ok) ==
  /\ request.route = "initiate" /\ request.pc = "send"
  /\ request' = [request EXCEPT !.pc = "activate",
                                !.sent = IF ok THEN Append(@, request.messageToSend) ELSE @]
  /\ UNCHANGED <<conversation_started, engine, lookup, generated, transport>>

\* await sendMessage(chatId, messageToSend) returns or throws
InitiateSend(ok) ==
  /\ request.route = "initiate" /\ request.pc = "send"
  /\ request' = IF ok THEN [request EXCEPT !.pc = "activate",
                                           !.sent = Append(@, request.messageToSend)]
                ELSE Fail(500, "Failed to initiate conversation.")
  /\ UNCHANGED <<conversation_started, engine, lookup, generated, transport>>

\* await updateStatus(db, rowId, STATUS.ACTIVE) returns or throws
InitiateActivate(ok) ==
  /\ request.route = "initiate" /\ request.pc = "activate"
  /\ IF ok
       THEN /\ updateStatus(request.rowid, STATUS.ACTIVE)
            /\ request' = [request EXCEPT !.pc = "done", !.wrote = Append(@, STATUS.ACTIVE),
                                          !.response.code = 200,
                                          !.response.status = STATUS.ACTIVE]
       ELSE /\ request' = Fail(500, "Failed to initiate conversation.")
            /\ UNCHANGED conversation_started
  /\ UNCHANGED <<engine, lookup, generated, transport>>

InitiateStep ==
  \/ \E rowid \in RowIdParams, ready \in BOOLEAN,
        initialMessage \in InitialMessages, followupMessage \in FollowupMessages :
       InitiateArrives(rowid, ready, initialMessage, followupMessage)
  \/ \E ok \in BOOLEAN : InitiateLoaded(ok)
  \/ \E answer \in {"yes", "no", "throw"} : InitiateRegistered(answer)
  \/ \E ok \in BOOLEAN : InitiateUnregister(ok)
  \/ \E outcome \in {"chat", "none", "throw"} : InitiateChat(outcome)
  \/ \E ok \in BOOLEAN : InitiateSync(ok)
  \/ \E ok \in BOOLEAN, messages \in 0..2 : InitiateHistory(ok, messages)
  \/ \E ok \in BOOLEAN : InitiateSend(ok)
  \/ \E ok \in BOOLEAN : InitiateActivate(ok)

\* ---- PATCH /api/contacts/:rowid/status
\* req.body.status as a client can send it
StatusInputs == StatusValues \cup {"started", "archived"}

\* the request arrives: the id and the status are checked before the first await
StatusArrives(rowid, nextStatus) ==
  /\ request.route = "none"
  /\ request' =
       LET req == [request EXCEPT !.route = "status", !.rowid = rowid,
                                  !.nextStatus = nextStatus]
       IN  IF rowid = 0 THEN [req EXCEPT !.pc = "done", !.response.code = 400,
                                         !.response.error = "Invalid contact id."]
           ELSE IF nextStatus \notin StatusValues
             THEN [req EXCEPT !.pc = "done", !.response.code = 400,
                              !.response.error = "Invalid status."]
           ELSE [req EXCEPT !.pc = "load"]
  /\ UNCHANGED <<conversation_started, engine, lookup, generated, transport>>

\* await loadContactForChat(db, rowId) returns or throws
StatusLoaded(ok) ==
  /\ request.route = "status" /\ request.pc = "load"
  /\ request' = IF ~ok THEN Fail(500, "Failed to update status.")
                ELSE IF request.rowid \notin DOMAIN conversation_started THEN Fail(404, "Contact not found.")
                ELSE [request EXCEPT !.pc = "update"]
  /\ UNCHANGED <<conversation_started, engine, lookup, generated, transport>>

\* await updateStatus(db, rowId, nextStatus) returns or throws
StatusUpdated(ok) ==
  /\ request.route = "status" /\ request.pc = "update"
  /\ IF ok
       THEN /\ updateStatus(request.rowid, request.nextStatus)
            /\ request' = [request EXCEPT !.pc = "done",
                                          !.wrote = Append(@, request.nextStatus),
                                          !.response.code = 200,
                                          !.response.status = request.nextStatus]
       ELSE /\ request' = Fail(500, "Failed to update status.")
            /\ UNCHANGED conversation_started
  /\ UNCHANGED <<engine, lookup, generated, transport>>

StatusStep ==
  \/ \E rowid \in RowIdParams, nextStatus \in StatusInputs : StatusArrives(rowid, nextStatus)
  \/ \E ok \in BOOLEAN : StatusLoaded(ok)
  \/ \E ok \in BOOLEAN : StatusUpdated(ok)

\* ---- POST /api/contacts
\* payload.conversation_started as a client can send it; "" is a payload
\* without it, and the pieces are trimmed like every string of the payload
StatusPayloads ==
  { <<>>, <<"active">>, <<Whitespace, "paused", Whitespace>>, <<"archived">> }

\* the request arrives; isObject says that its body is a payload object,
\* hasFields that the payload names another column of the table with a value
InsertArrives(isObject, status, hasFields) ==
  /\ request.route = "none"
  /\ request' =
       IF ~isObject
         THEN [request EXCEPT !.route = "insert", !.pc = "done", !.response.code = 400,
                              !.response.error = "Invalid payload."]
         ELSE [request EXCEPT !.route = "insert", !.pc = "columns",
                              !.nextStatus = Trim(status),
                              !.hasNonStatusValue = hasFields]
  /\ UNCHANGED <<conversation_started, engine, lookup, generated, transport>>

\* await loadTableInfo(db) returns or throws; the columns of the payload that
\* have a value are collected
InsertColumns(ok) ==
  /\ request.route = "insert" /\ request.pc = "columns"
  /\ request' = IF ~ok THEN Fail(500, "Failed to create contact.")
                ELSE IF ~request.hasNonStatusValue THEN Fail(400, "Provide at least one contact field.")
                ELSE [request EXCEPT !.pc = "insert"]
  /\ UNCHANGED <<conversation_started, engine, lookup, generated, transport>>

\* await dbRun(db, INSERT ...) returns or throws: the new row has the next
\* rowid, and the column's default when the payload left the status out
InsertRuns(ok) ==
  /\ request.route = "insert" /\ request.pc = "insert"
  /\ IF ok
       THEN LET lastID == Cardinality(DOMAIN conversation_started) + 1
                value  == IF request.nextStatus = "" THEN STATUS.PENDING
                          ELSE request.nextStatus
            IN  /\ conversation_started' = conversation_started @@ (lastID :> value)
                /\ request' = [request EXCEPT !.pc = "done", !.rowid = lastID,
                                              !.wrote = Append(@, value),
                                              !.response.code = 201]
       ELSE /\ request' = Fail(500, "Failed to create contact.")
            /\ UNCHANGED conversation_started
  /\ UNCHANGED <<engine, lookup, generated, transport>>

InsertStep ==
  \/ \E isObject \in BOOLEAN, status \in StatusPayloads, hasFields \in BOOLEAN :
       InsertArrives(isObject, status, hasFields)
  \/ \E ok \in BOOLEAN : InsertColumns(ok)
  \/ \E ok \in BOOLEAN : InsertRuns(ok)

\* every contact of the table not yet initiated, or initiated
InitialStatuses ==
  { [r \in RouteRowIds |-> IF r = initiated THEN STATUS.ACTIVE ELSE STATUS.PENDING] :
      initiated \in RouteRowIds \cup {NoContact} }

InitRoutes ==
  /\ Quiet
  /\ conversation_started \in InitialStatuses
  /\ sinceLast = <<>>
  /\ sinceArr = <<>>
  /\ burst = <<>>
  /\ lookup = NoLookup
  /\ request = NoRequest
  /\ generated = NoGenerate
  /\ transport = NoTransport

NextRoutes ==
  \/ RespondStep
  \/ InitiateStep
  \/ StatusStep
  \/ InsertStep

SpecRoutes == InitRoutes /\ [][NextRoutes]_vars

\* ------------------------------- a respond request beside the drain loop
\* The auto-responder of one chat, to which text messages come, and one
\* POST /api/contacts/1/respond for the contact of that chat. The chat the
\* route finds for the contact is the chat its messages come from, and the
\* snapshot is taken before the chat got its first Language Responder call,
\* so that what chat.fetchMessages returns is the inbound messages that have
\* arrived so far, each with its arrival number as id and time stamp.
RespondedChats == {"a"}

RespondedRow == 1

ChatLog == [i \in 1..arrived |-> Message("text", i) @@ [timestamp |-> i, id |-> i]]

RespondSnapshotOfChat(c) ==
  /\ request.rowid = RespondedRow
  /\ calls[c] = <<>>
  /\ RespondSnapshot("snapshot", ChatLog)

NextBoth ==
  \/ \E c \in RespondedChats : Arrive(c, "text")
  \/ HandlerStepTimed
  \/ \E t \in timeouts : TimerFires(t, FALSE)
  \/ \E c \in ChatIds, i \in 1..2, answer \in {"typing", "idle", "throw"} :
       ProbeReturns(c, i, answer, TRUE)
  \/ \E c \in ChatIds, i \in 1..2 : SleepEnds(c, i, FALSE)
  \/ LoopStep
  \/ RespondArrives(RespondedRow, TRUE, TRUE)
  \/ RespondLoaded(TRUE)
  \/ RespondChat("chat")
  \/ RespondContact(TRUE)
  \/ \E c \in RespondedChats : RespondSnapshotOfChat(c)
  \/ \E ok \in BOOLEAN, result \in Results, ack \in Acks : RespondLlm(ok, result, ack)
  \/ \E ok \in BOOLEAN : RespondSendText(ok)
  \/ \E ok \in BOOLEAN : RespondSendMedia(ok)
  \/ \E ok \in BOOLEAN : RespondAck(ok)
  \/ \E ok \in BOOLEAN : RespondPause(ok)

SpecBoth == Init /\ [][NextBoth]_vars

\* ------------------------------------------- the Language Responder adapter
\* generateGeminiResponse over every answer of the model below.

\* a value of the parsed JSON object: a string, a number written as its
\* String(), or a key that is absent
Str(text) == [type |-> "string", text |-> text]

Num(text) == [type |-> "number", text |-> text]

Absent == [type |-> "undefined", text |-> undefined]

\* !value
Falsy(value) ==
  \/ value.type = "undefined"
  \/ value.type = "string" /\ value.text = ""
  \/ value.type = "number" /\ value.text = "0"

\* text.toLowerCase(), for the texts of this model
toLowerCase(text) ==
  CASE text = "REPLY"   -> "reply"
    [] text = "Ack"     -> "ack"
    [] text = "Include" -> "include"
    [] text = "SEEN"    -> "seen"
    [] OTHER            -> text

\* extractJson(text): the empty tuple for null, or the object with its keys
ParsedOutputs ==
  {<<>>} \cup
  { <<[action |-> action, reply |-> reply, media |-> media, ack |-> ack]>> :
      action \in {Str("reply"), Str("REPLY"), Str("pause"), Str("Ack"), Str("ack"),
                  Str("dance"), Str(""), Num("1"), Absent},
      reply  \in {Str("r"), Absent},
      media  \in {Str("include"), Str("Include"), Str("none"), Str("video"), Absent},
      ack    \in {Str("seen"), Str("SEEN"), Str("thumbs_up"), Str("wave"), Absent} }

\* the object literal of a return statement
Result(action, reply, media, ack, reason) ==
  [action |-> action, reply |-> reply, media |-> media, ack |-> ack, reason |-> reason]

\* lines 460-477: the result for what extractJson returned
Classify(parsedOrNull) ==
  IF parsedOrNull = <<>> \/ Falsy(parsedOrNull[1].action)
    THEN Result("pause", "", undefined, undefined, "invalid_response")
    ELSE LET parsed == parsedOrNull[1]
             action == toLowerCase(parsed.action.text)
             reply  == IF parsed.reply.type = "string" THEN parsed.reply.text ELSE ""
             media  == IF parsed.media.type = "string"
                         THEN toLowerCase(parsed.media.text) ELSE "none"
             ack    == IF parsed.ack.type = "string"
                         THEN toLowerCase(parsed.ack.text) ELSE "seen"
         IN  IF action \notin {"reply", "pause", "ack"}
               THEN Result("pause", "", undefined, undefined, "invalid_action")
             ELSE IF media \notin {"include", "none"}
               THEN Result(action, reply, "none", ack, undefined)
             ELSE IF ack \notin {"seen", "thumbs_up"}
               THEN Result(action, reply, media, "seen", undefined)
             ELSE Result(action, reply, media, ack, undefined)

InitGenerate ==
  /\ Quiet
  /\ conversation_started = [r \in RowIds |-> STATUS.ACTIVE]
  /\ sinceLast = <<>>
  /\ sinceArr = <<>>
  /\ burst = <<>>
  /\ lookup = NoLookup
  /\ request = NoRequest
  /\ \E hasKey \in BOOLEAN, ok \in BOOLEAN, parsed \in ParsedOutputs :
       generated = [NoGenerate EXCEPT !.hasKey = hasKey, !.ok = ok, !.parsed = parsed,
                                      !.pc = "called"]
  /\ transport = NoTransport

\* generateGeminiResponse is called: without an API key it returns at once,
\* otherwise it awaits fetch
GenerateCalled ==
  /\ generated.pc = "called"
  /\ generated' =
       IF ~generated.hasKey
         THEN [generated EXCEPT !.pc = "returned",
                 !.result = Result("pause", "", "none", undefined, "missing_api_key")]
         ELSE [generated EXCEPT !.pc = "fetch"]
  /\ UNCHANGED <<responder, lookup, request, transport>>

\* await fetch(...) and the body are there: a response that is not ok throws,
\* any other is parsed and classified
GenerateFetched ==
  /\ generated.pc = "fetch"
  /\ generated' =
       IF ~generated.ok THEN [generated EXCEPT !.pc = "thrown"]
       ELSE [generated EXCEPT !.pc = "returned", !.result = Classify(generated.parsed)]
  /\ UNCHANGED <<responder, lookup, request, transport>>

NextGenerate ==
  \/ GenerateCalled
  \/ GenerateFetched

SpecGenerate == InitGenerate /\ [][NextGenerate]_vars

\* ------------------------------------------- the transport client's life
\* initWhatsAppClient, the 'disconnected' event, scheduleReinit and its
\* timeout callback (import_seller_background.js). A Client instance is named
\* by the number of its creation, and so are the intervals set with it.
MaxDisconnects == 3

\* clearTimers()
clearTimers(tr) ==
  [tr EXCEPT !.keepAlives = @ \ {tr.keepAliveTimer}, !.keepAliveTimer = NoTimer,
             !.polls = @ \ {tr.pollTimer}, !.pollTimer = NoTimer]

\* initWhatsAppClient(): the client the module holds, or a new one with its
\* listeners and intervals; ~ok is `new Client` throwing
initWhatsAppClient(tr, ok) ==
  IF tr.client # NoClient THEN tr
  ELSE IF ~ok THEN tr
  ELSE LET n == tr.created + 1
       IN  [tr EXCEPT !.client = n, !.created = n,
                      !.instances = @ \cup {n}, !.listening = @ \cup {n},
                      !.keepAliveTimer = IF tr.keepAliveMs THEN n ELSE @,
                      !.keepAlives = IF tr.keepAliveMs THEN @ \cup {n} ELSE @,
                      !.pollTimer = IF tr.statePollMs THEN n ELSE @,
                      !.polls = IF tr.statePollMs THEN @ \cup {n} ELSE @]

\* scheduleReinit(reason)
scheduleReinit(tr) ==
  IF tr.reinitScheduled \/ tr.reinitInProgress THEN tr
  ELSE [tr EXCEPT !.reinitScheduled = TRUE, !.reinits = @ + 1]

\* the process starts: whatsAppContactProcess.js calls initWhatsAppClient()
StartClient ==
  /\ ~transport.started
  /\ transport' = initWhatsAppClient([transport EXCEPT !.started = TRUE], TRUE)
  /\ UNCHANGED <<responder, lookup, request, generated>>

\* a client that has its listeners emits 'disconnected' (lines 856-863)
Disconnected(n) ==
  /\ n \in transport.listening \cap transport.instances
  /\ transport.disconnects < MaxDisconnects
  /\ transport' = scheduleReinit([transport EXCEPT !.disconnects = @ + 1])
  /\ UNCHANGED <<responder, lookup, request, generated>>

\* the timeout callback of scheduleReinit runs (lines 657-665) up to the
\* await of client.destroy(); with no client destroyClient returns at once
\* and the callback goes on to lines 666-670
ReinitFires(ok) ==
  /\ transport.reinits > 0
  /\ transport' =
       LET tr == [transport EXCEPT !.reinits = @ - 1, !.reinitScheduled = FALSE]
       IN  IF tr.reinitInProgress THEN tr
           ELSE LET cleared == clearTimers([tr EXCEPT !.reinitInProgress = TRUE])
                IN  IF cleared.client = NoClient
                      THEN [initWhatsAppClient(cleared, ok) EXCEPT !.reinitInProgress = FALSE]
                      ELSE [cleared EXCEPT !.listening = @ \ {cleared.client},
                                           !.pc = "destroying"]
  /\ UNCHANGED <<responder, lookup, request, generated>>

\* client.destroy() returned or threw (lines 643-648), and the callback goes
\* on (lines 666-670); a destroy that threw may have left the client alive
DestroyReturns(destroyed, gone, ok) ==
  /\ transport.pc = "destroying"
  /\ destroyed => gone
  /\ transport' =
       LET tr == [transport EXCEPT !.instances = IF gone THEN @ \ {transport.client} ELSE @,
                                   !.client = NoClient, !.pc = "idle"]
       IN  [initWhatsAppClient(tr, ok) EXCEPT !.reinitInProgress = FALSE]
  /\ UNCHANGED <<responder, lookup, request, generated>>

\* the intervals are configured or not (WHATSAPP_KEEP_ALIVE_MS, WHATSAPP_STATE_POLL_MS)
InitTransport ==
  /\ Quiet
  /\ conversation_started = [r \in RowIds |-> IF r = 1 THEN STATUS.ACTIVE ELSE "started"]
  /\ sinceLast = <<>>
  /\ sinceArr = <<>>
  /\ burst = <<>>
  /\ lookup = NoLookup
  /\ request = NoRequest
  /\ generated = NoGenerate
  /\ \E keepAlive \in BOOLEAN, statePoll \in BOOLEAN :
       transport = [NoTransport EXCEPT !.keepAliveMs = keepAlive, !.statePollMs = statePoll]

NextTransport ==
  \/ StartClient
  \/ \E n \in 1..(MaxDisconnects + 1) : Disconnected(n)
  \/ \E ok \in BOOLEAN : ReinitFires(ok)
  \/ \E destroyed \in BOOLEAN, gone \in BOOLEAN, ok \in BOOLEAN :
       DestroyReturns(destroyed, gone, ok)

SpecTransport == InitTransport /\ [][NextTransport]_vars

\* ================================================================ the claims
\* the one loop of chat c, where there is one
Running(c) == loops[c] # <<>>

\* C1: for every chat at most one execution of the drain loop is active at any
\* time, under every interleaving of handlers, timers and loop suspensions: the
\* processing flag of the chat's entry is set exactly while an execution is
\* active, and no timeout callback is outstanding for a chat whose flag is set,
\* so no call of processChatQueue ever meets a set flag (and touches nothing).
C1_MutualExclusion ==
  \A c \in ChatIds :
    /\ Len(loops[c]) <= 1
    /\ EntryOf(inFlight, c).processing <=> Running(c)
    /\ EntryOf(inFlight, c).processing => \A t \in timeouts : t.chat # c

\* a loop is suspended in the Language Responder call while a message that
\* came meanwhile sits in the buffer and another handler is still on its way
C1_Witness ==
  \E c \in ChatIds :
    /\ Running(c) /\ loops[c][1].pc = "llm"
    /\ Len(EntryOf(inFlight, c).buffer) > 0
    /\ EntryOf(inFlight, c).processing

\* nothing of chat c is under way: no handler, no entry, no loop
Settled(c) ==
  /\ c \notin DOMAIN inFlight
  /\ loops[c] = <<>>
  /\ \A h \in handlers : h.chat # c

\* the ids of a sequence of records are strictly ascending: arrival order
Ascending(ids) == \A j, k \in DOMAIN ids : j < k => ids[j] < ids[k]

IdsOf(log) == [k \in DOMAIN log |-> log[k].id]

ContentsOf(log) == [k \in DOMAIN log |-> log[k].content]

\* C2: when the messages of a chat came as one burst of eligible messages, each
\* less than the quiet window after the one before and none later, then once
\* the chat has settled exactly one Language Responder call has been made for
\* it, and its message is the newline-join of the buffered contents in arrival
\* order. Stated here for the runs in which no awaited call failed and the
\* messages were buffered in the order they arrived.
C2_OneCallPerBurst ==
  \A c \in DOMAIN burst :
    (burst[c] = "burst" /\ Settled(c) /\ faults = 0 /\ Ascending(IdsOf(pushLog[c]))) =>
      /\ Len(calls[c]) = 1
      /\ calls[c][1].message = JoinLines(ContentsOf(pushLog[c]))

\* the timeouts that will call processChatQueue for chat c
TimersOf(tos, c) == {t \in tos : t.chat = c}

\* C3: while no drain loop runs for a chat, a step that buffers a message of it
\* leaves exactly one timeout outstanding for the chat, the one the entry
\* holds, with the full quiet window to run (the pending one is cancelled); and
\* a step that starts a drain loop for the chat is taken no earlier than one
\* full quiet window after the last message was buffered for it.
C3_QuietWindow ==
  [][\A c \in DOMAIN sinceLast :
       /\ (pushLog'[c] # pushLog[c] /\ ~EntryOf(inFlight, c).processing) =>
            /\ Cardinality(TimersOf(timeouts', c)) = 1
            /\ \A t \in TimersOf(timeouts', c) :
                 t.left = QUIET_WINDOW_MS /\ t.id = EntryOf(inFlight', c).timer
       /\ Len(loops'[c]) > Len(loops[c]) => sinceLast[c] >= QUIET_WINDOW_MS
    ]_vars

\* a second message has just been buffered while the timeout of the first was
\* running part of its window: one timeout, newly armed with the full window
C3_Witness ==
  \E c \in DOMAIN sinceLast :
    /\ Len(pushLog[c]) = 2 /\ calls[c] = <<>> /\ loops[c] = <<>>
    /\ sinceLast[c] = 0 /\ sinceArr[c] > 0
    /\ \E t \in timeouts : TimersOf(timeouts, c) = {t} /\ t.left = QUIET_WINDOW_MS /\ t.id = 2

\* the arrival ids of the messages given to the Language Responder for a chat,
\* call after call and inside each call in the order of the joined string
RECURSIVE Delivered(_)
Delivered(cs) == IF cs = <<>> THEN <<>> ELSE Head(cs).ids \o Delivered(Tail(cs))

\* C4: for a single chat the messages reach the Language Responder in arrival
\* order, inside a batch and from batch to batch, under every interleaving of
\* the admission steps of different messages.
C4_ArrivalOrder ==
  \A c \in ChatIds : Ascending(Delivered(calls[c]))

\* a call that reaches the chat or the Language Responder is under way
Outbound == {"llm", "sendText", "sendMedia"}

\* loop i of chat c makes a step that takes it to pc
Enters(c, i, pcs) ==
  /\ i \in DOMAIN loops'[c] /\ loops'[c][i].pc \in pcs
  /\ (i \in DOMAIN loops[c] /\ loops[c][i].pc = loops'[c][i].pc) => loops[c][i] = loops'[c][i]
  /\ loops'[c] # loops[c]

\* C5: the drain loop calls the Language Responder, sends text or sends media
\* only for a contact whose status is active (or the legacy started) at the
\* moment of the call; a paused contact gets no automatic reply.
C5_OnlyActive ==
  [][\A c \in ChatIds, i \in 1..2 :
       Enters(c, i, Outbound) =>
         StatusOf(loops'[c][i].rowid) \in {STATUS.ACTIVE, "started"}
    ]_vars

\* loop i of chat c makes a step
Steps(c, i) == i \in DOMAIN loops[c] /\ loops'[c] # loops[c]

\* ... and the step is not an exception thrown by the awaited call
Returns(c, i) ==
  Steps(c, i) /\ ~(i \in DOMAIN loops'[c] /\ loops'[c][i].pc = "catchPause")

\* the step just taken ended the execution of the loop and consumed nothing more
LoopEnded(c) ==
  /\ loops'[c] = <<>>
  /\ EntryOf(inFlight', c).buffer = EntryOf(inFlight, c).buffer
  /\ ~EntryOf(inFlight', c).processing
  /\ calls' = calls

\* the results C6 is about: neither a reply nor an ack, or a reply with nothing to send
Pausing(result) ==
  \/ result.action \notin {"reply", "ack"}
  \/ result.action = "reply" /\ result.reply = "" /\ result.media # "include"

\* C6: when the Language Responder returns an action other than reply or ack,
\* or a reply with neither text nor media flag, the loop calls the status write
\* to paused and nothing else: no text or media is sent for the batch, and when
\* the write returns the contact is paused and the execution has ended without
\* consuming a further batch, whatever the buffer holds (a write that throws
\* goes to the catch block, which ends the execution too).
C6_PauseStops ==
  [][\A c \in ChatIds, i \in 1..2 :
       /\ (Steps(c, i) /\ loops[c][i].pc = "llm" /\ Returns(c, i)
             /\ Pausing(loops'[c][i].result)) =>
            loops'[c][i].pc = "pause" /\ loops'[c][i].did = <<>>
       /\ (Steps(c, i) /\ loops[c][i].pc = "pause" /\ Pausing(loops[c][i].result)) =>
            /\ loops[c][i].did = <<>>
            /\ IF Returns(c, i)
                 THEN conversation_started'[loops[c][i].rowid] = STATUS.PAUSED /\ LoopEnded(c)
                 ELSE loops'[c][i].did = <<>>
    ]_vars

\* the Language Responder has answered with an unknown action, the status
\* write is under way and a message that came meanwhile waits in the buffer
C6_Witness ==
  \E c \in ChatIds :
    /\ Running(c) /\ loops[c][1].pc = "pause"
    /\ loops[c][1].result.action = "other"
    /\ Len(EntryOf(inFlight, c).buffer) > 0

\* the results C7 is about
Replying(result) ==
  result.action = "reply" /\ (result.reply # "" \/ result.media = "include")

\* the step just taken was the `continue` of the loop: with a buffered batch
\* the same execution starts its next iteration, else the execution ends
WentOn(c, i) ==
  IF Len(EntryOf(inFlight, c).buffer) > 0
    THEN /\ Len(loops'[c]) = Len(loops[c])
         /\ loops'[c][i].pc = "probe" /\ loops'[c][i].did = <<>>
         /\ inFlight' = inFlight
    ELSE loops'[c] = <<>> /\ c \notin DOMAIN inFlight'

\* C7: for a reply with text and/or the media flag the loop sends the text
\* first, if there is one, and sends the media, if flagged, only when the text
\* send has returned; it writes no status on the way; and when the last send
\* has returned it goes on with the next buffered batch of the chat.
C7_ReplyThenContinue ==
  [][\A c \in ChatIds, i \in 1..2 :
       /\ (Steps(c, i) /\ loops[c][i].pc = "llm" /\ Returns(c, i)
             /\ Replying(loops'[c][i].result)) =>
            /\ loops'[c][i].pc = IF loops'[c][i].result.reply # "" THEN "sendText"
                                 ELSE "sendMedia"
            /\ loops'[c][i].did = <<>>
            /\ UNCHANGED conversation_started
       /\ (Returns(c, i) /\ loops[c][i].pc = "sendText") =>
            /\ Replying(loops[c][i].result) /\ loops[c][i].did = <<>>
            /\ IF loops[c][i].result.media = "include"
                 THEN /\ i \in DOMAIN loops'[c]
                      /\ loops'[c][i].pc = "sendMedia" /\ loops'[c][i].did = <<"text">>
                 ELSE WentOn(c, i)
            /\ UNCHANGED conversation_started
       /\ (Returns(c, i) /\ loops[c][i].pc = "sendMedia") =>
            /\ Replying(loops[c][i].result) /\ loops[c][i].result.media = "include"
            /\ loops[c][i].did = IF loops[c][i].result.reply # "" THEN <<"text">> ELSE <<>>
            /\ WentOn(c, i)
            /\ UNCHANGED conversation_started
    ]_vars

\* the text of a reply has been sent, its media send is under way, and the
\* next batch waits in the buffer
C7_Witness ==
  \E c \in ChatIds :
    /\ Running(c) /\ loops[c][1].pc = "sendMedia" /\ loops[c][1].did = <<"text">>
    /\ Len(EntryOf(inFlight, c).buffer) > 0
    /\ Len(calls[c]) = 1

\* C8: when the Language Responder call, the text send or the media send
\* throws, the loop goes to its catch block with nothing more sent for the
\* batch (no media send after a failed text send) and calls the status write to
\* paused; whether that write returns or throws, the execution then ends
\* without consuming a further batch, and when it returns the contact is paused.
C8_ThrowPauses ==
  [][\A c \in ChatIds, i \in 1..2 :
       /\ (Steps(c, i) /\ loops[c][i].pc \in Outbound /\ faults' > faults) =>
            /\ i \in DOMAIN loops'[c] /\ loops'[c][i].pc = "catchPause"
            /\ loops'[c][i].did = loops[c][i].did
            /\ UNCHANGED <<inFlight, conversation_started, calls>>
       /\ (Steps(c, i) /\ loops[c][i].pc = "catchPause") =>
            /\ LoopEnded(c)
            /\ faults' = faults => conversation_started'[loops[c][i].rowid] = STATUS.PAUSED
    ]_vars

\* the text send of a reply with text and media has thrown: the catch block
\* is at its status write, nothing was sent, a further message is buffered
C8_Witness ==
  \E c \in ChatIds :
    /\ Running(c) /\ loops[c][1].pc = "catchPause"
    /\ loops[c][1].result = [action |-> "reply", reply |-> "r", media |-> "include"]
    /\ loops[c][1].did = <<>>
    /\ Len(EntryOf(inFlight, c).buffer) > 0

Routing == <<inFlight, timeouts, loops, pushLog, calls, conversation_started>>

\* handler h is gone after the step
Ended(h) == h \in handlers /\ \A k \in handlers' : k.id # h.id

\* C10: a message that is self-sent, of a group chat, of a sender whose number
\* cannot be resolved, of no contact, of a contact that is neither active nor
\* started, or without content is dropped silently: its handler never gets to
\* the point where messages are buffered, and the step that ends it appends to
\* no buffer, creates no entry, arms or resets no timeout, calls nothing
\* outbound and writes no status.
C10_DroppedSilently ==
  [][/\ \A h \in handlers' :
         /\ h.kind # "self"
         /\ h.pc \in {"lookup", "info"} =>
              ~Includes(ChatFrom[h.chat], GroupMark) /\ (h.pc = "lookup" => h.number # <<>>)
         /\ (h.pc = "info" /\ h \notin handlers) =>
              /\ h.rowid \in RowIds
              /\ conversation_started[h.rowid] \in {STATUS.ACTIVE, "started"}
              /\ h.kind # "blank"
     /\ \A h \in handlers : (Ended(h) /\ h.pc # "info") => (UNCHANGED Routing)
     /\ (arrived' # arrived) => (UNCHANGED Routing)
     /\ \A c \in ChatIds :
          pushLog'[c] # pushLog[c] =>
            \E h \in handlers : Ended(h) /\ h.pc = "info" /\ h.chat = c
    ]_vars

\* the operator has paused contact 1 and no call has failed; the first message
\* of the run is gone and has left nothing behind, and the handler of the
\* second, a message of that contact, has the rows to read
C10_Witness ==
  /\ arrived = 2 /\ faults = 1 /\ conversation_started[1] = STATUS.PAUSED
  /\ \E h \in handlers :
       handlers = {h} /\ h.id = 2 /\ h.pc = "lookup" /\ h.chat = "a" /\ h.kind = "text"
  /\ inFlight = <<>> /\ timeouts = {}
  /\ \A c \in ChatIds : pushLog[c] = <<>> /\ calls[c] = <<>>

\* C11: every status write of the Core writes paused and is applied only to a
\* contact that is active (or the legacy started) at that moment: a step of a
\* drain loop that changes a contact's status finds it active or started and
\* leaves it paused, also when the operator changes statuses meanwhile; a
\* pending or unregistered contact is never changed by it.
C11_PausesOnlyActive ==
  [][\A r \in RowIds :
       (conversation_started'[r] # conversation_started[r] /\ loops' # loops) =>
         /\ conversation_started'[r] = STATUS.PAUSED
         /\ conversation_started[r] \in {STATUS.ACTIVE, "started"}
    ]_vars

\* C12: an ack of the Language Responder produces no text reply and leaves the
\* contact's status as it is: no step of a drain loop whose result is an ack
\* changes the status column or calls the text send.
C12_AckKeepsStatus ==
  [][\A c \in ChatIds, i \in 1..2 :
       (Steps(c, i) /\ loops[c][i].result.action = "ack") =>
         /\ UNCHANGED conversation_started
         /\ i \in DOMAIN loops'[c] => loops'[c][i].pc # "sendText"
    ]_vars

\* C13: a reply with empty text and media=none makes no transport call, leaves
\* the contact's status unchanged, and the loop goes on with the next batch.
C13_EmptyReplyGoesOn ==
  [][\A c \in ChatIds, i \in 1..2 :
       (Steps(c, i) /\ loops[c][i].pc = "llm" /\ Returns(c, i)
         /\ loops'[c][i].result = [action |-> "reply", reply |-> "", media |-> "none"]) =>
         /\ WentOn(c, i)
         /\ UNCHANGED conversation_started
    ]_vars

\* C14: a history fetch that fails is degraded gracefully: the iteration goes
\* on to the Language Responder call with the batch it took, and the fetch
\* failure pauses nobody.
C14_HistoryFailureGoesOn ==
  [][\A c \in ChatIds, i \in 1..2 :
       (Steps(c, i) /\ loops[c][i].pc = "history" /\ faults' > faults) =>
         /\ i \in DOMAIN loops'[c] /\ loops'[c][i].pc = "llm"
         /\ loops'[c][i].content = loops[c][i].content
         /\ Len(calls'[c]) = Len(calls[c]) + 1
    ]_vars

\* C15: a typing probe that fails, the first of an iteration or a later one,
\* is taken as "not typing": in the very step the same iteration removes the
\* whole buffer as its batch and goes on towards the Language Responder call,
\* and nobody is paused for it.
C15_ProbeFailureGoesOn ==
  [][\A c \in ChatIds, i \in 1..2 :
       (Steps(c, i) /\ loops[c][i].pc = "probe" /\ faults' > faults) =>
         /\ i \in DOMAIN loops'[c] /\ loops'[c][i].pc = "history"
         /\ loops'[c][i].content = JoinLines(EntryOf(inFlight, c).buffer)
         /\ EntryOf(inFlight', c).buffer = <<>>
         /\ UNCHANGED conversation_started
    ]_vars

\* the first probe answered "typing", the probe after the sleep threw (the
\* one failed call of the run), and the batch is on its way to the call
C15_Witness ==
  \E c \in DOMAIN sinceLast :
    /\ Running(c) /\ loops[c][1].pc = "history" /\ ~loops[c][1].typed
    /\ loops[c][1].elapsed >= TYPING_POLL_MS
    /\ faults = 1 /\ EntryOf(inFlight, c).contactInfo = "info"
    /\ arrived = 1 /\ calls[c] = <<>>

\* C16: a status write to paused that fails, in the pause branch or in the
\* exception handler of the loop, does not leave processChatQueue: no call of
\* it ever ends by throwing (rejecting).
C16_PauseFailureStaysInside == rejected = 0

\* the ids of the messages buffered for chat c so far
Admitted(c) == {pushLog[c][k].id : k \in DOMAIN pushLog[c]}

\* what the routing state holds of chat d
Inbox(map, tos, d) == <<d \in DOMAIN map, EntryOf(map, d), TimersOf(tos, d)>>

\* C17: drain loops of different chats run at the same time, and a drain loop
\* of chat c touches chat c only: every batch it hands to the Language
\* Responder consists of messages admitted for c, it writes no status but that
\* of its own contact, and a step of it (its start included) leaves the entry,
\* the timeouts, the loop and the calls of every other chat as they are.
C17_OtherChatsUntouched ==
  [][\A c \in ChatIds :
       loops'[c] # loops[c] =>
         /\ \A d \in ChatIds \ {c} :
              /\ Inbox(inFlight', timeouts', d) = Inbox(inFlight, timeouts, d)
              /\ loops'[d] = loops[d] /\ calls'[d] = calls[d]
         /\ \A k \in DOMAIN calls'[c] :
              \A j \in DOMAIN calls'[c][k].ids : calls'[c][k].ids[j] \in Admitted(c)
         /\ \A r \in RowIds :
              conversation_started'[r] # conversation_started[r] =>
                \E i \in DOMAIN loops[c] : loops[c][i].rowid = r
    ]_vars

\* the loops of two chats are both suspended in their Language Responder call
C17_Witness ==
  \E c, d \in ChatIds :
    /\ c # d /\ Running(c) /\ Running(d)
    /\ loops[c][1].pc = "llm" /\ loops[d][1].pc = "llm"
    /\ loops[c][1].rowid # loops[d][1].rowid


\* the rows of the table whose digits are the number asked for, and those whose
\* last nine digits are its last nine digits
ExactRows ==
  {i \in DOMAIN lookup.rows :
     normalizeNumber(lookup.rows[i].cleanContactNumber) = lookup.number}

SuffixRows ==
  {i \in DOMAIN lookup.rows :
     LET digits == normalizeNumber(lookup.rows[i].cleanContactNumber)
     IN  /\ Len(digits) >= 9
         /\ Len(lookup.number) >= 9
         /\ SubSeq(digits, Len(digits) - 8, Len(digits))
              = SubSeq(lookup.number, Len(lookup.number) - 8, Len(lookup.number))}

\* C18: findContactByNumber returns a contact whose digits equal the inbound
\* number when there is one, also when a row that matches by suffix only comes
\* earlier; otherwise, for an inbound number of nine digits or more, the first
\* contact whose last nine digits are the inbound number's last nine; otherwise
\* no contact. 94771234567 finds a contact stored as 0771234567.
C18_ExactThenSuffix ==
  lookup.returned =>
    /\ ExactRows # {} => \E i \in ExactRows : lookup.found = lookup.rows[i].rowid
    /\ (ExactRows = {} /\ SuffixRows # {}) =>
         \E i \in SuffixRows :
           /\ lookup.found = lookup.rows[i].rowid
           /\ \A j \in SuffixRows : i <= j
    /\ (ExactRows = {} /\ SuffixRows = {}) => lookup.found = NoContact
    /\ ( /\ lookup.number = <<"9", "4", "7", "7", "1", "2", "3", "4", "5", "6", "7">>
         /\ Len(lookup.rows) = 1
         /\ lookup.rows[1].cleanContactNumber
              = <<"0", "7", "7", "1", "2", "3", "4", "5", "6", "7">> )
       => lookup.found = 1

\* the exact match is returned although a row matching by suffix only precedes it
C18_Witness ==
  /\ lookup.returned
  /\ Len(lookup.rows) = 2
  /\ 1 \in SuffixRows \ ExactRows
  /\ 2 \in ExactRows
  /\ lookup.found = 2

\* the contents of the inbound messages of the log that no outgoing message
\* follows, in the order of their time stamps (ties in the order fetched)
Earlier(log, i, j) ==
  \/ log[i].timestamp < log[j].timestamp
  \/ log[i].timestamp = log[j].timestamp /\ i < j

UnrepliedIn(log) ==
  {i \in DOMAIN log :
     /\ ~log[i].fromMe
     /\ getMessageContent(log[i]) # ""
     /\ \A j \in DOMAIN log : log[j].fromMe => Earlier(log, j, i)}

RECURSIVE InOrder(_, _)
InOrder(log, left) ==
  IF left = {} THEN <<>>
  ELSE LET first == CHOOSE i \in left : \A j \in left \ {i} : Earlier(log, i, j)
       IN  <<getMessageContent(log[first])>> \o InOrder(log, left \ {first})

Unreplied(log) == InOrder(log, UnrepliedIn(log))

RespondDone == request.route = "respond" /\ request.pc = "done"

ReplySent == \E k \in DOMAIN request.sent : request.sent[k] \in {"text", "media"}

\* C19: a respond request makes at most one Language Responder call, with the
\* newline-join of the unreplied inbound contents as its message; it answers
\* responded = 1, paused = false exactly when a reply (text and/or media) was
\* sent, responded = 0, paused = true exactly when it wrote paused, and
\* responded = 0, paused = false without a model call, a send or a status
\* write when nothing unreplied has content.
C19_RespondContract ==
  request.route = "respond" =>
    /\ request.llm <= 1
    /\ request.llm = 1 => request.message = JoinLines(Unreplied(request.log))
    /\ RespondDone =>
         /\ ReplySent <=>
              /\ request.response.code = 200
              /\ request.response.responded = 1 /\ ~request.response.paused
         /\ request.wrote = <<STATUS.PAUSED>> <=>
              /\ request.response.code = 200
              /\ request.response.responded = 0 /\ request.response.paused
         /\ request.wrote \in {<<>>, <<STATUS.PAUSED>>}
         /\ (request.response.code = 200 /\ Unreplied(request.log) = <<>>) =>
              /\ request.response.responded = 0 /\ ~request.response.paused
              /\ request.llm = 0 /\ request.sent = <<>> /\ request.wrote = <<>>

\* a step of an initiate request, and what it does to the status column
InitiateMoves == request'.route = "initiate" /\ request' # request

WritesActive ==
  /\ request'.wrote = Append(request.wrote, STATUS.ACTIVE)
  /\ conversation_started' = [conversation_started EXCEPT ![request.rowid] = STATUS.ACTIVE]

WritesUnregistered ==
  /\ request'.wrote = Append(request.wrote, STATUS.UNREGISTERED)
  /\ conversation_started' =
       [conversation_started EXCEPT ![request.rowid] = STATUS.UNREGISTERED]

WritesNothing == request'.wrote = request.wrote /\ UNCHANGED conversation_started

NothingDone == request'.sent = <<>> /\ request'.wrote = <<>> /\ UNCHANGED conversation_started

\* the writes of the initiate flow, and the cases that stop it before any check
\* of the initial message
InitiateWrites ==
  /\ WritesNothing \/ WritesActive \/ WritesUnregistered
  /\ WritesActive =>
       request.isRegistered = "yes" /\ Len(request.sent) = 1 /\ request.wrote = <<>>
  /\ WritesUnregistered =>
       request.isRegistered = "no" /\ request.sent = <<>> /\ request.wrote = <<>>
  /\ request'.isRegistered = "no" =>
       /\ request'.sent = <<>>
       /\ request'.response.code = 200 => WritesUnregistered
  /\ request'.response.code \in {503, 404, 400} => NothingDone
  /\ (request.pc = "send" /\ request'.pc = "done") => NothingDone

C21_StatusDomain ==
  /\ \A r \in DOMAIN conversation_started :
       conversation_started[r] \in StatusValues \cup {"started"}
  /\ (request.route = "status" /\ request.nextStatus \notin StatusValues) =>
       /\ request.wrote = <<>>
       /\ request.pc = "done" /\ request.response.code = 400

\* a step of the manual override: the status column changes and no loop moves
Override == conversation_started' # conversation_started /\ loops' = loops

\* the handler of h has read the rows in this step and gone on to buffer
GoesOn(h) == \E k \in handlers' : k.id = h.id /\ k.pc = "info"

\* C22: the manual override changes the conversation_started of one row and
\* nothing else, so that paused followed by active leaves a state that differs
\* in nothing from the one before; and what the auto-responder does with a
\* later message depends on the status it reads then and on nothing kept from
\* an earlier pause.
C22_OverrideLeavesNoTrace ==
  [][/\ Override =>
          /\ \E r \in RowIds : \A q \in RowIds \ {r} :
               conversation_started'[q] = conversation_started[q]
          /\ UNCHANGED <<inFlight, timeouts, handlers, loops, arrived, pushLog, calls,
                         rejected, outside>>
     /\ \A h \in handlers :
          (h.pc = "lookup" /\ h \notin handlers' /\ faults' = faults) =>
            (GoesOn(h) <=>
               LET contact == findContactByNumber(ContactRows, h.number)
               IN  /\ contact # NoContact
                   /\ conversation_started[contact] \in {STATUS.ACTIVE, "started"}
                   /\ ExtractContent(Message(h.kind, h.id)) # "")
    ]_vars

\* the operator has taken contact 1 out of active and put it back, nothing
\* else has disturbed the run, and the first message of the contact has its
\* lookup still to come
C22_Witness ==
  /\ faults = 2 /\ arrived = 1
  /\ conversation_started[1] = STATUS.ACTIVE /\ conversation_started[2] = "started"
  /\ \E h \in handlers :
       handlers = {h} /\ h.id = 1 /\ h.pc = "lookup" /\ h.chat = "a" /\ h.kind = "text"
  /\ inFlight = <<>> /\ timeouts = {}

\* what the model's output asks for, read from the parsed object
Unparsed == generated.parsed = <<>>

NoAction == ~Unparsed /\ Falsy(generated.parsed[1].action)

UnknownAction ==
  /\ ~Unparsed /\ ~NoAction
  /\ toLowerCase(generated.parsed[1].action.text) \notin {"reply", "pause", "ack"}

InvalidMedia ==
  /\ ~Unparsed
  /\ generated.parsed[1].media.type = "string"
  /\ toLowerCase(generated.parsed[1].media.text) \notin {"include", "none"}

\* C23: the adapter returns exactly one action among reply, pause and ack,
\* with media include or none on a reply and ack seen or thumbs_up on an ack;
\* output that cannot be parsed, output without an action, an action outside
\* reply/pause/ack and an explicitly invalid media value all come back as pause.
C23_ClassifiedOrPause ==
  generated.pc = "returned" =>
    /\ generated.result.action \in {"reply", "pause", "ack"}
    /\ generated.result.action = "reply" => generated.result.media \in {"include", "none"}
    /\ generated.result.action = "ack" => generated.result.ack \in {"seen", "thumbs_up"}
    /\ (generated.hasKey /\ (Unparsed \/ NoAction \/ UnknownAction \/ InvalidMedia)) =>
         generated.result.action = "pause"

\* the id of the most recent unreplied inbound message of the log that has
\* content and a usable id, NoId when there is none
MostRecentWithId(log) ==
  LET withId == {i \in UnrepliedIn(log) : log[i].id # NoId}
  IN  IF withId = {} THEN NoId
      ELSE log[CHOOSE i \in withId : \A j \in withId \ {i} : Earlier(log, j, i)].id

\* the respond request has got an ack from the Language Responder
Acking == request.route = "respond" /\ request.action = "ack" /\ request.pc \in {"ack", "done"}

\* C24: on an ack the respond entry point makes exactly one transport call: a
\* reaction to the most recent pending inbound message that has a usable id
\* when the sub-kind is thumbs_up and there is such a message, and otherwise
\* (no id, or seen) the mark-as-seen; no text or media is sent, no status is
\* written, and the response reports zero replies.
C24_AckReactsOrSeen ==
  Acking =>
    /\ request.ackCall \in {"reactToMessage", "sendSeen"}
    /\ request.ackCall = "reactToMessage" <=>
         (request.ack = "thumbs_up" /\ MostRecentWithId(request.log) # NoId)
    /\ request.ackCall = "reactToMessage" => request.reacted = MostRecentWithId(request.log)
    /\ request.ackCall = "sendSeen" => request.reacted = NoId
    /\ \A k \in DOMAIN request.sent : request.sent[k] \notin {"text", "media"}
    /\ Len(request.sent) <= 1
    /\ request.wrote = <<>>
    /\ (request.pc = "done" /\ request.response.code = 200) =>
         /\ request.response.responded = 0 /\ ~request.response.paused
         /\ Len(request.sent) = 1

\* two pending messages have an id, the thumbs-up went to the later one, which
\* was fetched first
C24_Witness ==
  /\ Acking /\ request.pc = "done" /\ request.response.code = 200
  /\ request.ack = "thumbs_up" /\ request.ackCall = "reactToMessage"
  /\ Len(request.pending) = 2
  /\ request.pending[1].messageId = 2 /\ request.pending[2].messageId = 1
  /\ request.reacted = 1

\* the message of handler h carries media or is a call event
NonText(h) ==
  Message(h.kind, h.id).hasMedia \/ Message(h.kind, h.id).type = "call_log"

\* the handler of h reads the rows in this step and finds an active contact
FindsActive(h) ==
  /\ h \in handlers /\ h.pc = "lookup" /\ h \notin handlers' /\ faults' = faults
  /\ findContactByNumber(ContactRows, h.number) # NoContact
  /\ isActiveStatus(conversation_started[findContactByNumber(ContactRows, h.number)])

\* C25: admission takes the trimmed body as the content when it is not
\* empty, and a placeholder for the media or call type otherwise, for every
\* inbound message that carries media or is a call event; so such a message
\* of an active contact goes on to be buffered, and what is buffered is the
\* trimmed body or, without one, a placeholder that is not empty.
C25_NonTextIsBuffered ==
  [][/\ \A h \in handlers :
          (FindsActive(h) /\ (NonText(h) \/ Trim(Message(h.kind, h.id).body) # "")) => GoesOn(h)
     /\ \A c \in ChatIds :
          pushLog'[c] # pushLog[c] =>
            \E h \in handlers :
              /\ pushLog'[c] = Append(pushLog[c], pushLog'[c][Len(pushLog'[c])])
              /\ pushLog'[c][Len(pushLog'[c])].id = h.id
              /\ pushLog'[c][Len(pushLog'[c])].content # ""
              /\ Trim(Message(h.kind, h.id).body) # "" =>
                   pushLog'[c][Len(pushLog'[c])].content = Trim(Message(h.kind, h.id).body)
    ]_vars

\* a step of a respond request, and the response it gives, if any
RespondMoves == request'.route = "respond" /\ request' # request

Refused ==
  /\ request'.pc = "done"
  /\ request'.response.code >= 400 /\ request'.response.error # ""
  /\ request'.response.responded = 0 /\ ~request'.response.paused
  /\ request'.response.status = "" /\ request'.response.ack = ""

NothingYet ==
  /\ request'.llm = 0 /\ request'.sent = <<>> /\ request'.wrote = <<>>
  /\ UNCHANGED conversation_started

Called(c) == UNION {{calls[c][k].ids[j] : j \in DOMAIN calls[c][k].ids} : k \in DOMAIN calls[c]}

\* iteration i of chat c takes its batch in this step
TakesBatch(c, i) ==
  /\ Steps(c, i) /\ loops[c][i].pc \in {"probe", "sleep"}
  /\ i \in DOMAIN loops'[c] /\ loops'[c][i].pc = "history"

\* C27: an iteration takes the whole buffer of that moment as its batch and
\* leaves the buffer empty; a message buffered while the batch is with the
\* history fetch, the model or a send is not added to it; every batch leads
\* to exactly one Language Responder call, made with that batch; and no
\* message is in a batch twice.
C27_WholeBufferOneCall ==
  [][\A c \in ChatIds :
       /\ \A i \in 1..2 :
            /\ TakesBatch(c, i) =>
                 /\ loops'[c][i].ids = EntryOf(inFlight, c).ids
                 /\ loops'[c][i].ids # <<>>
                 /\ EntryOf(inFlight', c).buffer = <<>>
                 /\ \A j \in DOMAIN loops'[c][i].ids : loops'[c][i].ids[j] \notin Called(c)
            /\ (Steps(c, i) /\ loops[c][i].pc = "history") =>
                 calls'[c] = Append(calls[c], [message |-> loops[c][i].content,
                                               ids |-> loops[c][i].ids])
            /\ (Steps(c, i) /\ loops[c][i].pc # "history") => calls'[c] = calls[c]
       /\ pushLog'[c] # pushLog[c] => (loops'[c] = loops[c] /\ calls'[c] = calls[c])
    ]_vars

\* the last send of a reply has returned: the text with no media flagged, or the media
ReplyDone(c, i) ==
  /\ Returns(c, i)
  /\ \/ loops[c][i].pc = "sendText" /\ loops[c][i].result.media # "include"
     \/ loops[c][i].pc = "sendMedia"

\* C28: a step that buffers a message of a chat whose drain loop is running
\* appends it to the buffer of the chat's existing entry, arms no timeout and
\* leaves none outstanding for the chat, and does not touch the loop; and
\* when the last send of a reply returns while the buffer is not empty, the
\* same execution starts its next iteration in that very step, with no timeout
\* in between, and that iteration's batch is the buffer with the new message.
C28_AppendedWhileDraining ==
  [][\A c \in ChatIds :
       /\ (Running(c) /\ pushLog'[c] # pushLog[c]) =>
            /\ c \in DOMAIN inFlight /\ c \in DOMAIN inFlight'
            /\ inFlight'[c].buffer =
                 Append(inFlight[c].buffer, pushLog'[c][Len(pushLog'[c])].content)
            /\ inFlight'[c].ids = Append(inFlight[c].ids, pushLog'[c][Len(pushLog'[c])].id)
            /\ inFlight'[c].processing /\ inFlight'[c].timer = NoTimer
            /\ TimersOf(timeouts', c) = {}
            /\ loops'[c] = loops[c]
       /\ \A i \in 1..2 :
            /\ (ReplyDone(c, i) /\ EntryOf(inFlight, c).buffer # <<>>) =>
                 /\ Len(loops'[c]) = Len(loops[c])
                 /\ loops'[c][i] = NewIteration(loops[c][i].rowid)
                 /\ inFlight' = inFlight
                 /\ TimersOf(timeouts', c) = {}
            /\ (TakesBatch(c, i) /\ calls[c] # <<>>) =>
                 loops'[c][i].ids = EntryOf(inFlight, c).ids
    ]_vars

\* a reply is being sent for the first batch of a chat while a message that
\* was buffered during the loop waits in the entry, with no timeout armed
C28_Witness ==
  \E c \in ChatIds :
      /\ Running(c) /\ loops[c][1].pc \in {"sendText", "sendMedia"}
      /\ Len(calls[c]) = 1
      /\ c \in DOMAIN inFlight /\ inFlight[c].buffer # <<>>
      /\ Len(pushLog[c]) = 2
      /\ TimersOf(timeouts, c) = {}


\* the step just taken ended the execution of the drain loop of the chat
Exits(c) == loops[c] # <<>> /\ loops'[c] = <<>>

\* C29: a step that ends a drain loop (the pause write returned, or the pause
\* of the catch block returned or threw) while the buffer is not empty keeps
\* the entry in the map with the same buffered messages and arms one timeout
\* for the chat with the full quiet window to run, the one the entry holds;
\* and a drain loop starts only in a step in which the timeout the entry
\* holds has run out and fires, so none starts before a full quiet window
\* has passed since the exit (a message buffered meanwhile replaces the
\* timeout by a newer one with the full window again).
C29_RearmedAfterExit ==
  [][\A c \in TimedChats :
       /\ (Exits(c) /\ EntryOf(inFlight, c).buffer # <<>>) =>
            /\ TimersOf(timeouts, c) = {}
            /\ c \in DOMAIN inFlight'
            /\ inFlight'[c].buffer = inFlight[c].buffer
            /\ inFlight'[c].ids = inFlight[c].ids
            /\ ~inFlight'[c].processing
            /\ \E t \in timeouts' :
                 /\ TimersOf(timeouts', c) = {t}
                 /\ t.left = QUIET_WINDOW_MS /\ t.id = inFlight'[c].timer
       /\ (~Running(c) /\ c \in DOMAIN inFlight) =>
            \E t \in timeouts : TimersOf(timeouts, c) = {t} /\ t.id = inFlight[c].timer
       /\ Len(loops'[c]) > Len(loops[c]) =>
            \E t \in timeouts \ timeouts' :
              t.chat = c /\ t.left = 0 /\ t.id = inFlight[c].timer
    ]_vars

\* the contact was paused after a call, the loop has ended, a message that was
\* buffered during it is still in the entry, and the timeout of the entry has
\* the full window to run although the last message was buffered earlier
C29_Witness ==
  \E c \in TimedChats :
    /\ ~Running(c) /\ calls[c] # <<>>
    /\ c \in DOMAIN inFlight /\ inFlight[c].buffer # <<>>
    /\ sinceLast[c] > 0
    /\ \E t \in timeouts :
         TimersOf(timeouts, c) = {t} /\ t.left = QUIET_WINDOW_MS /\ t.id = inFlight[c].timer


\* C30: a step that ends a drain loop while the buffer is empty removes the
\* entry of the chat from the map and leaves no timeout for the chat; an entry
\* is never removed while its buffer holds a message; and a step that buffers
\* a message of a chat that has no entry creates one that holds just this
\* message, with one timeout of the full quiet window, the one it holds.
C30_RemovedWhenDrained ==
  [][\A c \in ChatIds :
       /\ (Exits(c) /\ EntryOf(inFlight, c).buffer = <<>>) =>
            /\ c \in DOMAIN inFlight /\ c \notin DOMAIN inFlight'
            /\ TimersOf(timeouts', c) = {}
       /\ (c \in DOMAIN inFlight /\ c \notin DOMAIN inFlight') =>
            inFlight[c].buffer = <<>> /\ inFlight[c].ids = <<>>
       /\ (pushLog'[c] # pushLog[c] /\ c \notin DOMAIN inFlight) =>
            /\ c \in DOMAIN inFlight'
            /\ inFlight'[c].buffer = <<pushLog'[c][Len(pushLog'[c])].content>>
            /\ inFlight'[c].ids = <<pushLog'[c][Len(pushLog'[c])].id>>
            /\ ~inFlight'[c].processing
            /\ \E t \in timeouts' :
                 /\ TimersOf(timeouts', c) = {t}
                 /\ t.left = QUIET_WINDOW_MS /\ t.id = inFlight'[c].timer
    ]_vars

\* with nothing failing and no override, a chat was answered, its loop has
\* ended and the contact is still active, so that its entry was removed; the message buffered after that is
\* the only one of a new entry, whose timeout is armed
C30_Witness ==
  \E c \in ChatIds :
    /\ faults = 0 /\ calls[c] # <<>> /\ ~Running(c)
    /\ Len(pushLog[c]) = 2
    /\ c \in DOMAIN inFlight /\ Len(inFlight[c].buffer) = 1
    /\ inFlight[c].ids = <<pushLog[c][2].id>>
    /\ \E t \in timeouts :
         /\ TimersOf(timeouts, c) = {t} /\ t.id = inFlight[c].timer
         /\ conversation_started[t.rowid] = STATUS.ACTIVE


\* the indices of a set of messages of the log in the order of their time stamps
RECURSIVE Ordered(_, _)
Ordered(log, left) ==
  IF left = {} THEN <<>>
  ELSE LET first == CHOOSE i \in left : \A j \in left \ {i} : Earlier(log, i, j)
       IN  <<first>> \o Ordered(log, left \ {first})

\* the messages of the log that are outgoing or have an outgoing one after them
AnsweredIn(log) ==
  {i \in DOMAIN log : \E j \in DOMAIN log : log[j].fromMe /\ (i = j \/ Earlier(log, i, j))}

\* the newest message of the log is an outgoing one
NewestOutbound(log) ==
  \E j \in DOMAIN log : log[j].fromMe /\ \A i \in DOMAIN log \ {j} : Earlier(log, i, j)

\* C31: the pending list of the snapshot a respond request took is exactly
\* the inbound messages of the fetched log that have content and no outgoing
\* message after them, in time-stamp order, each with its content and id; its
\* history is the chat log of exactly the messages up to and including the
\* last outgoing one; and when the newest message fetched is outgoing, pending
\* is empty and the request ends with no model call, no send and no write.
C31_SnapshotSplitsAtLastOutbound ==
  request.route = "respond" =>
    LET log    == request.log
        unrepl == Ordered(log, UnrepliedIn(log))
        before == Ordered(log, AnsweredIn(log))
    IN  /\ request.pending =
             [k \in DOMAIN unrepl |-> [content |-> getMessageContent(log[unrepl[k]]),
                                       messageId |-> log[unrepl[k]].id]]
        /\ request.history =
             JoinLines([k \in DOMAIN before |-> formatMessageLine(log[before[k]])])
        /\ NewestOutbound(log) =>
             /\ request.pending = <<>>
             /\ request.pc = "done" /\ request.response.code = 200
             /\ request.response.responded = 0 /\ ~request.response.paused
             /\ request.llm = 0 /\ request.sent = <<>> /\ request.wrote = <<>>

\* the outgoing message was fetched first and sent last: the inbound one sent
\* before it is history, nothing is pending, and the request has answered
C31_Witness ==
  /\ request.route = "respond" /\ request.pc = "done"
  /\ Len(request.log) = 2
  /\ request.log[1].fromMe /\ request.log[1].timestamp = 2
  /\ ~request.log[2].fromMe /\ request.log[2].timestamp = 1
  /\ getMessageContent(request.log[2]) # ""
  /\ request.pending = <<>>
  /\ request.history # ""


\* the iteration has got the Language Responder's result for its batch and is
\* at the first call it makes for it
LoopAnswered(c, i) ==
  /\ i \in DOMAIN loops[c]
  /\ loops[c][i].pc \in {"sendText", "sendMedia", "pause"}
  /\ loops[c][i].result # NoResult /\ loops[c][i].did = <<>>

\* the respond request has got the Language Responder's result and is at the
\* first call it makes for it
RespondAnswered ==
  /\ request.route = "respond"
  /\ request.pc \in {"sendText", "sendMedia", "ack", "pause"}
  /\ request.sent = <<>> /\ request.wrote = <<>>

\* the Language Responder call of the iteration threw: the catch block is
\* writing paused
LoopCallThrew(c, i) ==
  /\ i \in DOMAIN loops[c]
  /\ loops[c][i].pc = "catchPause" /\ loops[c][i].result = NoResult
  /\ calls[c] # <<>> /\ calls[c][Len(calls[c])].ids = loops[c][i].ids

\* the Language Responder call of the respond request threw: it has answered
RespondCallThrew ==
  /\ request.route = "respond" /\ request.pc = "done"
  /\ request.llm = 1 /\ request.action = "" /\ request.response.code = 500

\* C32: when an iteration of the drain loop and a respond request for the
\* same contact had the same content and got the same result from the
\* Language Responder, the first call each makes for it is the same one (the
\* text send, the media send or the status write to paused); and when the
\* Language Responder call threw in both, the respond request has written
\* paused as the catch block of the loop does.
C32_SameEffectsBothPaths ==
  \A c \in ChatIds, i \in 1..2 :
    /\ (/\ LoopAnswered(c, i) /\ RespondAnswered
        /\ loops[c][i].rowid = request.rowid
        /\ loops[c][i].content = request.message
        /\ loops[c][i].result.action = request.action
        /\ loops[c][i].result.reply = request.reply
        /\ loops[c][i].result.media = request.media) =>
         loops[c][i].pc = request.pc
    /\ (/\ LoopCallThrew(c, i) /\ RespondCallThrew
        /\ loops[c][i].rowid = request.rowid
        /\ loops[c][i].content = request.message) =>
         request.wrote = <<STATUS.PAUSED>>


\* C33: in every state, for every chat: at most one timeout is outstanding
\* for it; an outstanding timeout is the one the chat's entry holds and the
\* buffer of that entry is not empty; and an entry in the map has either its
\* drain loop running, the flag set and no timeout outstanding, or no loop
\* running, the flag clear and exactly one timeout outstanding.
C33_LoopXorTimer ==
  \A c \in ChatIds :
    /\ Cardinality(TimersOf(timeouts, c)) <= 1
    /\ \A t \in TimersOf(timeouts, c) :
         /\ c \in DOMAIN inFlight
         /\ inFlight[c].buffer # <<>>
         /\ t.id = inFlight[c].timer
    /\ c \in DOMAIN inFlight =>
         \/ /\ Running(c) /\ inFlight[c].processing
            /\ TimersOf(timeouts, c) = {}
         \/ /\ ~Running(c) /\ ~inFlight[c].processing
            /\ Cardinality(TimersOf(timeouts, c)) = 1

\* one chat has its drain loop running with a message waiting in the buffer
\* and no timeout, while another has a timeout outstanding and no loop
C33_Witness ==
  \E c, d \in ChatIds :
    /\ c # d
    /\ Running(c) /\ c \in DOMAIN inFlight /\ inFlight[c].buffer # <<>>
    /\ TimersOf(timeouts, c) = {}
    /\ ~Running(d) /\ d \in DOMAIN inFlight /\ TimersOf(timeouts, d) # {}


\* nothing of the chat is left: no handler, no loop, no entry, no timeout
Quiesced(c) == Settled(c) /\ TimersOf(timeouts, c) = {}

\* C34: when every awaited call returns or throws and every armed timeout
\* fires, then from some point on, for every chat, no handler and no drain
\* loop runs, no timeout is outstanding and the chat has no entry in the map,
\* so that every message that was buffered has left the buffer in a batch
\* (a buffer is emptied by the splice of a batch only); this also after a
\* pause write that threw in the catch block.
C34_DrainsToQuiet == <>[](\A c \in ChatIds : Quiesced(c))

\* a pause write of the catch block threw, and nothing is left of any chat
\* although a message had been buffered
C34_Witness ==
  /\ rejected > 0
  /\ \A c \in ChatIds : Quiesced(c)
  /\ \E c \in ChatIds : pushLog[c] # <<>>


\* the ids of the messages in the content of the respond request's Language
\* Responder call, if it has made one
RespondCalled ==
  IF request.route = "respond" /\ request.llm > 0
    THEN {request.pending[j].messageId : j \in DOMAIN request.pending} \ {NoId}
    ELSE {}

\* C35: no inbound message is in the content of two Language Responder
\* calls: the batches of the drain loop's calls for a chat share no message,
\* and no message of the content of a respond request's call for the contact
\* of the chat is in the batch of a call of the drain loop.
C35_NoMessageTwice ==
  \A c \in RespondedChats :
    /\ \A k, m \in DOMAIN calls[c] :
         k # m => \A j \in DOMAIN calls[c][k].ids :
                    \A n \in DOMAIN calls[c][m].ids : calls[c][k].ids[j] # calls[c][m].ids[n]
    /\ RespondCalled \cap Called(c) = {}


\* the re-initializations that are scheduled or in progress
Reinits == transport.reinits + (IF transport.reinitInProgress THEN 1 ELSE 0)

\* C36: in every state at most one re-initialization of the transport client
\* is scheduled or in progress (a pending timeout callback of scheduleReinit,
\* or one that runs), and at most one Client instance, one keep-alive
\* interval and one state-poll interval exist.
C36_OneClientOneReinit ==
  /\ Reinits <= 1
  /\ Cardinality(transport.instances) <= 1
  /\ Cardinality(transport.keepAlives) <= 1
  /\ Cardinality(transport.polls) <= 1

====
